---------------------------- MODULE Spec2Model ----------------------------
(***************************************************************************)
(* Model of the product backend: the repository's query pipeline           *)
(* (applyFilters, applySort, getProductsPaginated, getProductById), the    *)
(* upstream client (fetchJson) and the route handlers built on them.       *)
(*                                                                         *)
(* Conventions.  A JavaScript string is a sequence of one-character        *)
(* strings ("ab" is <<"a", "b">>), so that toLowerCase, includes and       *)
(* localeCompare are computed character by character.  The sort key and    *)
(* the raw query parameters' names are plain TLA+ strings.  An optional    *)
(* value is a record with a kind field k ("undef", "null", "str", "num",   *)
(* "nan").  Numbers are integers; ratings are counted in tenths.           *)
(* An array is a sequence; the heap of arrays is a sequence of arrays and  *)
(* an array reference is an index into it.                                 *)
(***************************************************************************)
EXTENDS Integers, Sequences, FiniteSets, TLC

(***************************************************************************)
(* Bounds of the model.                                                    *)
(***************************************************************************)
\* longest product array handed to the pipeline / returned by the upstream
MaxLen == 3

(***************************************************************************)
(* Program constants.                                                      *)
(***************************************************************************)
DEFAULT_PAGE_SIZE == 20

(***************************************************************************)
(* JavaScript values.                                                      *)
(***************************************************************************)
Num(n) == [k |-> "num", n |-> n]
NaN == [k |-> "nan", n |-> 0]
UndefNum == [k |-> "undef", n |-> 0]

Str(s) == [k |-> "str", s |-> s]
UndefStr == [k |-> "undef", s |-> <<>>]
NullStr == [k |-> "null", s |-> <<>>]

\* typeof v === "number": NaN is a number too
IsNumber(v) == v.k \in {"num", "nan"}

\* truthiness of an optional string: undefined, null and "" are falsy
TruthyStr(v) == v.k = "str" /\ v.s # <<>>

\* a < b on numbers, b possibly NaN: every comparison with NaN is false
JsLt(a, b) == b.k = "num" /\ a < b.n
JsGt(a, b) == b.k = "num" /\ a > b.n

(***************************************************************************)
(* Strings.                                                                *)
(***************************************************************************)
LowerChar(c) ==
  CASE c = "A" -> "a"
    [] c = "B" -> "b"
    [] c = "X" -> "x"
    [] OTHER -> c

toLowerCase(s) == [i \in DOMAIN s |-> LowerChar(s[i])]

\* String.prototype.includes: needle occurs in hay at some offset
includes(hay, needle) ==
  \E i \in 0..(Len(hay) - Len(needle)) :
    SubSeq(hay, i + 1, i + Len(needle)) = needle

\* Primary collation weight of a character: the space sorts before the
\* letters, letters sort alphabetically whatever their case.
PrimaryWeight(c) ==
  CASE LowerChar(c) = " " -> 0
    [] LowerChar(c) = "a" -> 1
    [] LowerChar(c) = "b" -> 2
    [] LowerChar(c) = "x" -> 3
    [] OTHER -> 4

\* Tertiary weight: a lower-case letter sorts before its upper-case form.
TertiaryWeight(c) == IF LowerChar(c) = c THEN 0 ELSE 1

RECURSIVE LexCompare(_, _)
\* -1, 0 or 1: lexicographic comparison of two sequences of weights
LexCompare(a, b) ==
  IF a = <<>> /\ b = <<>> THEN 0
  ELSE IF a = <<>> THEN -1
  ELSE IF b = <<>> THEN 1
  ELSE IF Head(a) < Head(b) THEN -1
  ELSE IF Head(a) > Head(b) THEN 1
  ELSE LexCompare(Tail(a), Tail(b))

\* String.prototype.localeCompare: primary weights decide; on a primary tie
\* the case difference decides.
PrimaryKey(s) == [i \in DOMAIN s |-> PrimaryWeight(s[i])]
TertiaryKey(s) == [i \in DOMAIN s |-> TertiaryWeight(s[i])]
OrElse(primary, tertiary) == IF primary # 0 THEN primary ELSE tertiary
localeCompare(a, b) ==
  OrElse(LexCompare(PrimaryKey(a), PrimaryKey(b)),
         LexCompare(TertiaryKey(a), TertiaryKey(b)))

(***************************************************************************)
(* Products.                                                               *)
(***************************************************************************)
\* The upstream's records (ProductDto).  Prices and ratings tie, two titles
\* are equal, one category is the empty string, one stock is 0.
Dtos ==
  { [id |-> 1, title |-> <<"b">>, description |-> <<"x">>, price |-> 2,
     category |-> <<"a">>, thumbnail |-> <<"t">>, rating |-> 45, stock |-> 0,
     brand |-> <<"x">>, images |-> <<>>, discountPercentage |-> 0],
    [id |-> 2, title |-> <<"a">>, description |-> <<"A", "b">>, price |-> 1,
     category |-> <<"a">>, thumbnail |-> <<"t">>, rating |-> 45, stock |-> 1,
     brand |-> <<>>, images |-> <<>>, discountPercentage |-> 5],
    [id |-> 3, title |-> <<"B">>, description |-> <<"x">>, price |-> 2,
     category |-> <<"b">>, thumbnail |-> <<"t">>, rating |-> 30, stock |-> 2,
     brand |-> <<"x">>, images |-> <<>>, discountPercentage |-> 0],
    [id |-> 4, title |-> <<"a">>, description |-> <<>>, price |-> 0,
     category |-> <<>>, thumbnail |-> <<>>, rating |-> 50, stock |-> 1,
     brand |-> <<>>, images |-> <<>>, discountPercentage |-> 0] }

mapDtoToDomain(dto) ==
  [id |-> dto.id, title |-> dto.title, description |-> dto.description,
   price |-> dto.price, category |-> dto.category,
   thumbnail |-> dto.thumbnail, rating |-> dto.rating, stock |-> dto.stock,
   brand |-> dto.brand, images |-> dto.images,
   discountPercentage |-> dto.discountPercentage]

toProductListItem(product) ==
  [id |-> product.id, title |-> product.title, price |-> product.price,
   category |-> product.category, thumbnail |-> product.thumbnail,
   rating |-> product.rating, stock |-> product.stock]

\* dtos.map(mapDtoToDomain) and products.map(toProductListItem)
MapToDomain(dtos) == [i \in DOMAIN dtos |-> mapDtoToDomain(dtos[i])]
MapToListItem(products) ==
  [i \in DOMAIN products |-> toProductListItem(products[i])]

\* The upstream's possible product lists: records with distinct ids.
DtoLists ==
  UNION { { s \in [1..n -> Dtos] :
              \A i, j \in 1..n : i # j => s[i].id # s[j].id } :
          n \in 0..MaxLen }

(***************************************************************************)
(* Filter criteria (ProductFilters) and sort orders (ProductSort).         *)
(***************************************************************************)
NoFilters ==
  [search |-> UndefStr, category |-> UndefStr, minPrice |-> UndefNum,
   maxPrice |-> UndefNum, maxStock |-> UndefNum]

SortOf(s) == [k |-> "str", s |-> s]
UndefSort == [k |-> "undef", s |-> ""]

SortOrders ==
  {"price_asc", "price_desc", "rating_asc", "rating_desc", "title_asc",
   "title_desc"}

\* !sort: undefined and the empty string are falsy
FalsySort(sort) == sort.k # "str" \/ sort.s = ""

(***************************************************************************)
(* applyFilters.                                                           *)
(***************************************************************************)
\* the haystack of the search criterion
Haystack(product) ==
  toLowerCase(product.title \o <<" ">> \o product.description \o <<" ">>
              \o product.category)

\* A plausible slip: the upper bounds tested for truthiness, as the strings
\* are, so that a bound of 0 counts as absent.
KeepTruthyBounds(product, filters) ==
  /\ ~(TruthyStr(filters.category) /\ product.category # filters.category.s)
  /\ ~(IsNumber(filters.minPrice) /\ JsLt(product.price, filters.minPrice))
  /\ ~(IsNumber(filters.maxPrice) /\ filters.maxPrice.n # 0
         /\ JsGt(product.price, filters.maxPrice))
  /\ ~(IsNumber(filters.maxStock) /\ filters.maxStock.n # 0
         /\ JsGt(product.stock, filters.maxStock))
  /\ ~(TruthyStr(filters.search)
         /\ ~includes(Haystack(product), toLowerCase(filters.search.s)))

\* A plausible slip: the search text compared as typed, not lowercased.
KeepSearchAsTyped(product, filters) ==
  /\ ~(TruthyStr(filters.category) /\ product.category # filters.category.s)
  /\ ~(IsNumber(filters.minPrice) /\ JsLt(product.price, filters.minPrice))
  /\ ~(IsNumber(filters.maxPrice) /\ JsGt(product.price, filters.maxPrice))
  /\ ~(IsNumber(filters.maxStock) /\ JsGt(product.stock, filters.maxStock))
  /\ ~(TruthyStr(filters.search)
         /\ ~includes(Haystack(product), filters.search.s))

\* the callback of products.filter: TRUE iff the product is kept
Keep(product, filters) ==
  /\ ~(TruthyStr(filters.category) /\ product.category # filters.category.s)
  /\ ~(IsNumber(filters.minPrice) /\ JsLt(product.price, filters.minPrice))
  /\ ~(IsNumber(filters.maxPrice) /\ JsGt(product.price, filters.maxPrice))
  /\ ~(IsNumber(filters.maxStock) /\ JsGt(product.stock, filters.maxStock))
  /\ ~(TruthyStr(filters.search)
         /\ ~includes(Haystack(product), toLowerCase(filters.search.s)))

\* Array.prototype.filter: a new array of the elements the callback keeps
ArrayFilter(arr, filters) == SelectSeq(arr, LAMBDA p : Keep(p, filters))

\* A plausible slip: the rejected elements spliced out of the array itself.
applyFiltersInPlace(h, r, filters) ==
  [heap |-> [h EXCEPT ![r] = ArrayFilter(h[r], filters)], ret |-> r]

\* applyFilters on the heap h, given the array at reference r: the result
\* is a newly allocated array
applyFiltersRef(h, r, filters) ==
  [heap |-> Append(h, ArrayFilter(h[r], filters)), ret |-> Len(h) + 1]

\* the array a call on the heap returned
Deref(res) == res.heap[res.ret]

\* applyFilters as a function of the array's content
applyFilters(products, filters) ==
  Deref(applyFiltersRef(<<products>>, 1, filters))

(***************************************************************************)
(* applySort.                                                              *)
(***************************************************************************)
\* A plausible slip: title_desc compares as title_asc does.
CompareTitleDescSlip(sort, a, b) ==
  CASE sort = "price_asc" -> a.price - b.price
    [] sort = "price_desc" -> b.price - a.price
    [] sort = "rating_asc" -> a.rating - b.rating
    [] sort = "rating_desc" -> b.rating - a.rating
    [] sort = "title_asc" -> localeCompare(a.title, b.title)
    [] sort = "title_desc" -> localeCompare(a.title, b.title)
    [] OTHER -> 0

\* the comparator handed to sorted.sort
Compare(sort, a, b) ==
  CASE sort = "price_asc" -> a.price - b.price
    [] sort = "price_desc" -> b.price - a.price
    [] sort = "rating_asc" -> a.rating - b.rating
    [] sort = "rating_desc" -> b.rating - a.rating
    [] sort = "title_asc" -> localeCompare(a.title, b.title)
    [] sort = "title_desc" -> localeCompare(b.title, a.title)
    [] OTHER -> 0

RECURSIVE InsertStable(_, _, _)
\* x inserted into the sorted array s behind every element that does not
\* compare greater than it
InsertStable(s, x, sort) ==
  IF s = <<>> THEN <<x>>
  ELSE IF Compare(sort, s[Len(s)], x) > 0
       THEN Append(InsertStable(SubSeq(s, 1, Len(s) - 1), x, sort), s[Len(s)])
       ELSE Append(s, x)

RECURSIVE SortPrefix(_, _, _)
\* the first n elements of arr, sorted
SortPrefix(arr, n, sort) ==
  IF n = 0 THEN <<>>
  ELSE InsertStable(SortPrefix(arr, n - 1, sort), arr[n], sort)

\* Array.prototype.sort with a comparator: a stable sort
StableSort(arr, sort) == SortPrefix(arr, Len(arr), sort)

\* [...products]: a new array with the same elements
ArrayCopy(h, r) == Append(h, h[r])

\* sorted.sort(cmp): sorts the array at r in place
ArraySortInPlace(h, r, sort) == [h EXCEPT ![r] = StableSort(h[r], sort)]

\* A plausible slip: the copy left out, the caller's array sorted in place.
applySortNoCopy(h, r, sort) ==
  IF FalsySort(sort) THEN [heap |-> h, ret |-> r]
  ELSE [heap |-> ArraySortInPlace(h, r, sort.s), ret |-> r]

\* applySort after the copy: sorted is the last array of the heap h
SortTheCopy(h, sort) ==
  IF FalsySort(sort) THEN [heap |-> h, ret |-> Len(h)]
  ELSE [heap |-> ArraySortInPlace(h, Len(h), sort.s), ret |-> Len(h)]

\* applySort on the heap h, given the array at reference r
applySortRef(h, r, sort) == SortTheCopy(ArrayCopy(h, r), sort)

\* applySort as a function of the array's content
applySort(products, sort) == Deref(applySortRef(<<products>>, 1, sort))

(***************************************************************************)
(* Pagination (getProductsPaginated).                                      *)
(***************************************************************************)
Min(a, b) == IF a < b THEN a ELSE b
Max(a, b) == IF a > b THEN a ELSE b

\* Math.ceil(a / b) for a >= 0, b > 0
CeilDiv(a, b) == (a + b - 1) \div b

\* a slice index made relative to the array: a negative index counts from
\* the end, every index is clamped into 0..len
RelativeIndex(i, len) == IF i < 0 THEN Max(len + i, 0) ELSE Min(i, len)

\* A plausible slip: the element at end taken as well.
SliceInclusive(arr, start, end) ==
  LET from == RelativeIndex(start, Len(arr))
      to == RelativeIndex(end + 1, Len(arr))
  IN IF from >= to THEN <<>> ELSE SubSeq(arr, from + 1, to)

\* Array.prototype.slice(start, end)
Slice(arr, start, end) ==
  LET from == RelativeIndex(start, Len(arr))
      to == RelativeIndex(end, Len(arr))
  IN IF from >= to THEN <<>> ELSE SubSeq(arr, from + 1, to)

\* pageSize > 0 ? pageSize : DEFAULT_PAGE_SIZE
SafePageSize(pageSize) == IF pageSize > 0 THEN pageSize ELSE DEFAULT_PAGE_SIZE

\* A plausible slip: the Math.max(1, ...) left out.
TotalPagesNoFloor(total, safePageSize) == CeilDiv(total, safePageSize)

\* Math.max(1, Math.ceil(total / safePageSize))
TotalPages(total, safePageSize) == Max(1, CeilDiv(total, safePageSize))

\* A plausible slip: the page clamped from below only.
ClampPageNoUpper(page, totalPages) == Max(page, 1)

\* Math.min(Math.max(page, 1), totalPages)
ClampPage(page, totalPages) == Min(Max(page, 1), totalPages)

\* the defaults of the destructured options: page = 1 and
\* pageSize = DEFAULT_PAGE_SIZE when undefined
OptionOr(v, default) == IF v.k = "undef" THEN default ELSE v.n

\* A plausible slip: total taken from the page, not from the sorted list.
PageResultTotalOfPage(sorted, safePageSize, totalPages, clampedPage) ==
  LET start == (clampedPage - 1) * safePageSize
      pageItems == MapToListItem(Slice(sorted, start, start + safePageSize))
  IN [items |-> pageItems, total |-> Len(pageItems), page |-> clampedPage,
      pageSize |-> safePageSize, totalPages |-> totalPages]

\* the slice of the page and the returned object
PageResult(sorted, safePageSize, totalPages, clampedPage) ==
  [items |-> MapToListItem(
                Slice(sorted, (clampedPage - 1) * safePageSize,
                      (clampedPage - 1) * safePageSize + safePageSize)),
   total |-> Len(sorted), page |-> clampedPage, pageSize |-> safePageSize,
   totalPages |-> totalPages]

\* the page clamped into 1..totalPages
PageOfTotal(sorted, safePageSize, totalPages, page) ==
  PageResult(sorted, safePageSize, totalPages, ClampPage(page, totalPages))

\* total and totalPages taken from the sorted list
PageOfSorted(sorted, safePageSize, page) ==
  PageOfTotal(sorted, safePageSize, TotalPages(Len(sorted), safePageSize),
              page)

\* A plausible slip: the page cut out of the unfiltered list and the filter
\* applied to the page.
PaginateBeforeFilter(options, allProducts) ==
  LET sortedAll == applySort(allProducts, options.sort)
      safePageSize ==
        SafePageSize(OptionOr(options.pageSize, DEFAULT_PAGE_SIZE))
      total == Len(applyFilters(allProducts, options.filters))
      totalPages == TotalPages(total, safePageSize)
      clampedPage == ClampPage(OptionOr(options.page, 1), totalPages)
      start == (clampedPage - 1) * safePageSize
      page == Slice(sortedAll, start, start + safePageSize)
  IN [items |-> MapToListItem(applyFilters(page, options.filters)),
      total |-> total, page |-> clampedPage, pageSize |-> safePageSize,
      totalPages |-> totalPages]

\* getProductsPaginated after its await: filter, sort, paginate
Paginate(options, allProducts) ==
  PageOfSorted(applySort(applyFilters(allProducts, options.filters),
                         options.sort),
               SafePageSize(OptionOr(options.pageSize, DEFAULT_PAGE_SIZE)),
               OptionOr(options.page, 1))

(***************************************************************************)
(* The upstream client: fetchJson and the two DummyJSON calls.             *)
(***************************************************************************)
MAX_PRODUCTS_PAGE_SIZE == 100

\* What a fetch can come to: a response with a status (its body readable as
\* JSON or not), an abort by the timeout, a network error.
Response(status, body) ==
  [kind |-> "response", status |-> status, json |-> TRUE, body |-> body]
Unparsable(status) ==
  [kind |-> "response", status |-> status, json |-> FALSE, body |-> <<>>]
Aborted == [kind |-> "abort", status |-> 0, json |-> FALSE, body |-> <<>>]
NetworkError ==
  [kind |-> "network", status |-> 0, json |-> FALSE, body |-> <<>>]

Ok(value) == [ok |-> TRUE, status |-> 200, value |-> value]
HttpError(status) == [ok |-> FALSE, status |-> status, value |-> <<>>]

\* fetchJson: the body of an ok response, an HttpError otherwise
fetchJson(outcome) ==
  CASE outcome.kind = "abort" -> HttpError(408)
    [] outcome.kind = "network" -> HttpError(502)
    [] outcome.kind = "response" /\ outcome.status \notin 200..299 ->
         HttpError(outcome.status)
    [] outcome.kind = "response" /\ outcome.status \in 200..299
         /\ ~outcome.json -> HttpError(502)
    [] OTHER -> Ok(outcome.body)

\* the upstream's answer to GET /products?limit=..&skip=0 over the list cat
UpstreamList(cat, limit) ==
  Response(200, [products |-> SubSeq(cat, 1, Min(limit, Len(cat))),
                 total |-> Len(cat), skip |-> 0, limit |-> limit])

\* the upstream's answer to GET /products/:id over the list cat
UpstreamById(cat, id) ==
  IF \E i \in DOMAIN cat : cat[i].id = id
  THEN Response(200, cat[CHOOSE i \in DOMAIN cat : cat[i].id = id])
  ELSE Response(404, <<>>)

\* the failures of a fetch: an error status, a timeout, a network error, a
\* body that is no JSON
FetchFailures == {Response(500, <<>>), Aborted, NetworkError, Unparsable(200)}

\* fetchProductsFromDummyJson(): limit = MAX_PRODUCTS_PAGE_SIZE, skip = 0
fetchProductsFromDummyJson(outcome) == fetchJson(outcome)

\* fetchProductByIdFromDummyJson(id)
fetchProductByIdFromDummyJson(outcome) == fetchJson(outcome)

\* response.products.map(mapDtoToDomain); a failure of the fetch is thrown
\* on
MapProducts(response) ==
  IF response.ok THEN Ok(MapToDomain(response.value.products))
  ELSE response

getAllProducts(outcome) == MapProducts(fetchProductsFromDummyJson(outcome))

\* .catch(() => null) gives null for every failure of the fetch
getProductById(outcome) ==
  IF fetchProductByIdFromDummyJson(outcome).ok
  THEN [found |-> TRUE,
        product |->
          mapDtoToDomain(fetchProductByIdFromDummyJson(outcome).value)]
  ELSE [found |-> FALSE, product |-> <<>>]

\* getProductsPaginated after the await of getAllProducts
PaginateFetched(options, allProducts) ==
  IF allProducts.ok THEN Ok(Paginate(options, allProducts.value))
  ELSE allProducts

\* getProductsPaginated: the fetch, then filter, sort, paginate
getProductsPaginated(options, outcome) ==
  PaginateFetched(options, getAllProducts(outcome))

\* getProductsForInsights after the await of getAllProducts
FilterFetched(filters, allProducts) ==
  IF allProducts.ok THEN Ok(applyFilters(allProducts.value, filters))
  ELSE allProducts

getProductsForInsights(filters, outcome) ==
  FilterFetched(filters, getAllProducts(outcome))

(***************************************************************************)
(* The insights service (productInsightsService).                          *)
(***************************************************************************)
LOW_STOCK_THRESHOLD == 10
TOP_RATED_LIMIT == 5

RECURSIVE SumOf(_, _, _)
\* products.reduce((acc, p) => acc + p.field, 0) over the first n products
SumOf(products, n, field) ==
  IF n = 0 THEN 0 ELSE SumOf(products, n - 1, field) + products[n][field]

\* A plausible slip: the quotient truncated to an integer.
QuotientTruncated(sum, count) == [num |-> sum \div count, den |-> 1]

\* a quotient sum / count, kept exact as a fraction; 0 is 0 / 1
Quotient(sum, count) == [num |-> sum, den |-> count]
Zero == [num |-> 0, den |-> 1]

\* A plausible slip: the guard on the empty array left out, so that the
\* average of no record is 0 / 0.
computeAveragePriceNoGuard(products) ==
  Quotient(SumOf(products, Len(products), "price"), Len(products))

computeAveragePrice(products) ==
  IF Len(products) = 0 THEN Zero
  ELSE Quotient(SumOf(products, Len(products), "price"), Len(products))

computeTotalStock(products) == SumOf(products, Len(products), "stock")

computeAverageRating(products) ==
  IF Len(products) = 0 THEN Zero
  ELSE Quotient(SumOf(products, Len(products), "rating"), Len(products))

computeAverageStock(products) ==
  IF Len(products) = 0 THEN Zero
  ELSE Quotient(SumOf(products, Len(products), "stock"), Len(products))

\* A JavaScript Map: its entries <<key, value>> in insertion order.
MapHas(m, key) == \E i \in DOMAIN m : m[i][1] = key
MapGet(m, key, default) ==
  IF MapHas(m, key) THEN m[CHOOSE i \in DOMAIN m : m[i][1] = key][2]
  ELSE default
\* A plausible slip: a key that is set again moves to the end, as in a
\* delete followed by a set.
MapSetMovesToEnd(m, key, value) ==
  Append(SelectSeq(m, LAMBDA entry : entry[1] # key), <<key, value>>)

MapSet(m, key, value) ==
  IF MapHas(m, key)
  THEN [i \in DOMAIN m |-> IF m[i][1] = key THEN <<key, value>> ELSE m[i]]
  ELSE Append(m, <<key, value>>)

\* totals.set(key, (totals.get(key) ?? 0) + amount)
MapAdd(m, key, amount) == MapSet(m, key, MapGet(m, key, 0) + amount)

RECURSIVE CountByCategory(_, _)
\* the counts Map after the first n products
CountByCategory(products, n) ==
  IF n = 0 THEN <<>>
  ELSE MapAdd(CountByCategory(products, n - 1), products[n].category, 1)

\* A plausible slip: count >= maxCount, which lets a later category that
\* equals the maximum replace the earlier one.
GreaterOrEqual(best, entry) ==
  IF entry[2] >= best.maxCount
  THEN [maxCategory |-> Str(entry[1]), maxCount |-> entry[2]]
  ELSE best

\* one step of the loop over counts.entries(): count > maxCount
Greater(best, entry) ==
  IF entry[2] > best.maxCount
  THEN [maxCategory |-> Str(entry[1]), maxCount |-> entry[2]]
  ELSE best

RECURSIVE MaxEntry(_, _)
\* maxCategory and maxCount after the first n entries of counts
MaxEntry(counts, n) ==
  IF n = 0 THEN [maxCategory |-> NullStr, maxCount |-> 0]
  ELSE Greater(MaxEntry(counts, n - 1), counts[n])

Null == [isNull |-> TRUE, name |-> <<>>, count |-> 0]

\* if (!maxCategory) return null; return { name, count }
NameAndCount(best) ==
  IF ~TruthyStr(best.maxCategory) THEN Null
  ELSE [isNull |-> FALSE, name |-> best.maxCategory.s, count |-> best.maxCount]

MostCommonOf(counts) == NameAndCount(MaxEntry(counts, Len(counts)))

computeMostCommonCategory(products) ==
  IF Len(products) = 0 THEN Null
  ELSE MostCommonOf(CountByCategory(products, Len(products)))

\* A plausible slip: stock at the threshold counted as low.
computeLowStockCountInclusive(products, threshold) ==
  Len(SelectSeq(products, LAMBDA p : p.stock <= threshold))

computeLowStockCount(products, threshold) ==
  Len(SelectSeq(products, LAMBDA p : p.stock < threshold))

\* A plausible slip: the operands of the comparator exchanged.
RatingAscendingSlip(a, b) == a.rating - b.rating

\* (a, b) => b.rating - a.rating
RatingDescending(a, b) == b.rating - a.rating

RECURSIVE InsertByRating(_, _)
\* x inserted into the sorted array s behind every element that does not
\* compare greater than it
InsertByRating(s, x) ==
  IF s = <<>> THEN <<x>>
  ELSE IF RatingDescending(s[Len(s)], x) > 0
       THEN Append(InsertByRating(SubSeq(s, 1, Len(s) - 1), x), s[Len(s)])
       ELSE Append(s, x)

RECURSIVE SortByRating(_, _)
\* [...products].sort(...): the first n products in a new array, sorted
SortByRating(products, n) ==
  IF n = 0 THEN <<>>
  ELSE InsertByRating(SortByRating(products, n - 1), products[n])

\* A plausible slip: products.sort(...) without the copy; sorted is the
\* caller's array itself.
SortInPlaceByRating(h, r) ==
  Append([h EXCEPT ![r] = SortByRating(h[r], Len(h[r]))],
         SortByRating(h[r], Len(h[r])))

\* const sorted = [...products].sort(...) on the heap h, products being the
\* array at reference r: the copy is a new array, the last of the heap, and
\* it is the copy that is sorted in place
SortCopyByRating(h, r) ==
  [ArrayCopy(h, r) EXCEPT ![Len(h) + 1] = SortByRating(h[r], Len(h[r]))]

\* computeTopRatedProducts on the heap h: the heap it leaves and the array
\* it returns
computeTopRatedProductsRef(h, r, limit) ==
  [heap |-> SortCopyByRating(h, r),
   ret |-> MapToListItem(Slice(SortCopyByRating(h, r)[Len(h) + 1], 0, limit))]

computeTopRatedProducts(products, limit) ==
  computeTopRatedProductsRef(<<products>>, 1, limit).ret

\* the array products as computeTopRatedProducts leaves it
AfterTopRated(products) ==
  computeTopRatedProductsRef(<<products>>, 1, TOP_RATED_LIMIT).heap[1]

RECURSIVE StockTotals(_, _)
\* the totals Map after the first n products
StockTotals(products, n) ==
  IF n = 0 THEN <<>>
  ELSE MapAdd(StockTotals(products, n - 1), products[n].category,
              products[n].stock)

\* Array.from(totals.entries()).map(...)
EntriesOf(totals) ==
  [i \in DOMAIN totals |->
     [category |-> totals[i][1], totalStock |-> totals[i][2]]]

computeStockByCategory(products) ==
  EntriesOf(StockTotals(products, Len(products)))

\* the insights object computed from the filtered products, the aggregates
\* in the order of the source: computeStockByCategory runs on the array
\* after computeTopRatedProducts has run on it
Insights(products) ==
  [averagePriceGlobal |-> computeAveragePrice(products),
   averageRatingGlobal |-> computeAverageRating(products),
   averageStockGlobal |-> computeAverageStock(products),
   totalProducts |-> Len(products),
   totalStock |-> computeTotalStock(products),
   mostCommonCategory |-> computeMostCommonCategory(products),
   lowStockCount |-> computeLowStockCount(products, LOW_STOCK_THRESHOLD),
   topRatedProducts |-> computeTopRatedProducts(products, TOP_RATED_LIMIT),
   stockByCategory |-> computeStockByCategory(AfterTopRated(products))]

\* getProductsInsights after the await of getProductsForInsights; products
\* is the array the aggregates were computed over, as they leave it
InsightsOf(products) ==
  IF products.ok
  THEN [ok |-> TRUE, status |-> 200, value |-> Insights(products.value),
        products |-> AfterTopRated(products.value)]
  ELSE products

getProductsInsights(filters, outcome) ==
  InsightsOf(getProductsForInsights(filters, outcome))

(***************************************************************************)
(* Parsing of the query parameters in the route handlers.                  *)
(***************************************************************************)
Digits == <<"0", "1", "2", "3", "4", "5", "6", "7", "8", "9">>
IsDigit(c) == \E i \in DOMAIN Digits : Digits[i] = c

RECURSIVE DecimalValue(_)
\* the value of a sequence of digits
DecimalValue(s) ==
  IF s = <<>> THEN 0
  ELSE 10 * DecimalValue(SubSeq(s, 1, Len(s) - 1))
         + (CHOOSE i \in DOMAIN Digits : Digits[i] = s[Len(s)]) - 1

RECURSIVE TrimStart(_)
TrimStart(s) == IF s # <<>> /\ Head(s) = " " THEN TrimStart(Tail(s)) ELSE s

RECURSIVE TrimEnd(_)
TrimEnd(s) ==
  IF s # <<>> /\ s[Len(s)] = " " THEN TrimEnd(SubSeq(s, 1, Len(s) - 1)) ELSE s

RECURSIVE LeadingDigits(_)
\* the longest prefix of s made of digits
LeadingDigits(s) ==
  IF s # <<>> /\ IsDigit(Head(s)) THEN <<Head(s)>> \o LeadingDigits(Tail(s))
  ELSE <<>>

Unsigned(s) == IF s # <<>> /\ Head(s) \in {"+", "-"} THEN Tail(s) ELSE s
Signed(s, n) == IF s # <<>> /\ Head(s) = "-" THEN 0 - n ELSE n

\* Number(value) on the strings of the model's alphabet (digits, sign,
\* space, letters): white space is trimmed, the empty string is 0, a signed
\* run of digits is its value, anything else is NaN
NumberOfTrimmed(t) ==
  IF t = <<>> THEN Num(0)
  ELSE IF Unsigned(t) # <<>> /\ LeadingDigits(Unsigned(t)) = Unsigned(t)
       THEN Num(Signed(t, DecimalValue(Unsigned(t))))
       ELSE NaN

ToNumber(s) == NumberOfTrimmed(TrimEnd(TrimStart(s)))

\* Number.parseInt(value, 10): leading white space is skipped, the longest
\* signed run of digits is read and the rest ignored; no digit gives NaN
IntOfTrimmed(t) ==
  IF LeadingDigits(Unsigned(t)) = <<>> THEN NaN
  ELSE Num(Signed(t, DecimalValue(LeadingDigits(Unsigned(t)))))

parseInt(s) == IntOfTrimmed(TrimStart(s))

\* !value for a string | null
Falsy(value) == value.k # "str" \/ value.s = <<>>

\* a ?? b
Coalesce(a, b) == IF a.k \in {"null", "undef"} THEN b ELSE a

\* A plausible slip: the parsed number handed on as it is, NaN included.
KeepNaN(parsed) == parsed

\* Number.isNaN(parsed) ? undefined : parsed
UndefinedIfNaN(parsed) == IF parsed.k = "nan" THEN UndefNum ELSE parsed

\* Number.isNaN(parsed) || parsed <= 0 ? undefined : parsed
UndefinedIfNotPositive(parsed) ==
  IF parsed.k = "nan" \/ parsed.n <= 0 THEN UndefNum ELSE parsed

\* parseOptionalNumber of the products route
parseOptionalNumber(value) ==
  IF Falsy(value) THEN UndefNum ELSE UndefinedIfNaN(ToNumber(value.s))

\* parsePositiveInt of the products route
parsePositiveInt(value) ==
  IF Falsy(value) THEN UndefNum ELSE UndefinedIfNotPositive(parseInt(value.s))

\* A plausible slip: the guard on the empty string left out, so that
\* Number("") = 0 becomes a bound of 0.
parseOptionalNumberNoGuard(value) ==
  IF value.k # "str" THEN UndefNum ELSE UndefinedIfNaN(ToNumber(value.s))

\* parseOptionalNumber of the insights route (its own copy)
parseOptionalNumberInsights(value) ==
  IF Falsy(value) THEN UndefNum ELSE UndefinedIfNaN(ToNumber(value.s))

\* The query parameters of a request, as searchParams.get returns them: a
\* string or null.
NullSort == [k |-> "null", s |-> ""]
NoQuery ==
  [search |-> NullStr, q |-> NullStr, category |-> NullStr,
   minPrice |-> NullStr, maxPrice |-> NullStr, maxStock |-> NullStr,
   sort |-> NullSort, page |-> NullStr, pageSize |-> NullStr]

\* the filters built by GET /api/products
ProductsRouteFilters(query) ==
  [search |-> Coalesce(Coalesce(query.search, query.q), UndefStr),
   category |-> Coalesce(query.category, UndefStr),
   minPrice |-> parseOptionalNumber(query.minPrice),
   maxPrice |-> parseOptionalNumber(query.maxPrice),
   maxStock |-> parseOptionalNumber(query.maxStock)]

\* the options GET /api/products hands to getProductsPaginated
ProductsRouteOptions(query) ==
  [filters |-> ProductsRouteFilters(query),
   sort |-> Coalesce(query.sort, UndefSort),
   page |-> Coalesce(parsePositiveInt(query.page), Num(1)),
   pageSize |-> Coalesce(parsePositiveInt(query.pageSize), UndefNum)]

\* the filters built by GET /api/products/insights
InsightsRouteFilters(query) ==
  [search |-> Coalesce(Coalesce(query.search, query.q), UndefStr),
   category |-> Coalesce(query.category, UndefStr),
   minPrice |-> parseOptionalNumberInsights(query.minPrice),
   maxPrice |-> parseOptionalNumberInsights(query.maxPrice),
   maxStock |-> parseOptionalNumberInsights(query.maxStock)]

NoOptions ==
  [filters |-> NoFilters, sort |-> UndefSort, page |-> UndefNum,
   pageSize |-> UndefNum]

(***************************************************************************)
(* The category service (extractUniqueCategories).                         *)
(***************************************************************************)
\* String.prototype.trim
trim(s) == TrimEnd(TrimStart(s))

\* A plausible slip: the category added as it is, the trim left out.
AddCategoryAsIs(categoriesSet, category) ==
  IF category = <<>> \/ trim(category) = <<>>
       \/ \E i \in DOMAIN categoriesSet : categoriesSet[i] = category
  THEN categoriesSet
  ELSE Append(categoriesSet, category)

\* the body of the loop: a category that is truthy and not blank is added,
\* trimmed, to the Set (a Set keeps one of each value, in insertion order)
AddCategory(categoriesSet, category) ==
  IF category = <<>> \/ trim(category) = <<>>
       \/ \E i \in DOMAIN categoriesSet : categoriesSet[i] = trim(category)
  THEN categoriesSet
  ELSE Append(categoriesSet, trim(category))

RECURSIVE CategoriesSet(_, _)
\* categoriesSet after the first n products
CategoriesSet(products, n) ==
  IF n = 0 THEN <<>>
  ELSE AddCategory(CategoriesSet(products, n - 1), products[n].category)

RECURSIVE InsertByLocale(_, _)
\* x inserted into the sorted array s behind every element that does not
\* compare greater than it
InsertByLocale(s, x) ==
  IF s = <<>> THEN <<x>>
  ELSE IF localeCompare(s[Len(s)], x) > 0
       THEN Append(InsertByLocale(SubSeq(s, 1, Len(s) - 1), x), s[Len(s)])
       ELSE Append(s, x)

RECURSIVE SortByLocale(_, _)
\* Array.from(categoriesSet).sort((a, b) => a.localeCompare(b)): the first
\* n names, sorted
SortByLocale(names, n) ==
  IF n = 0 THEN <<>>
  ELSE InsertByLocale(SortByLocale(names, n - 1), names[n])

extractUniqueCategories(products) ==
  IF Len(products) = 0 THEN <<>>
  ELSE SortByLocale(CategoriesSet(products, Len(products)),
                    Len(CategoriesSet(products, Len(products))))

(***************************************************************************)
(* State.                                                                  *)
(***************************************************************************)
VARIABLES
  heap,     \* the arrays a caller of the repository functions holds
  call,     \* the last call of a repository function and what it returned
  catalog,  \* the product list the upstream serves
  reqs      \* the requests: what each was asked, where it stands, its response

vars == <<heap, call, catalog, reqs>>

\* Two requests, enough for two to be in flight at once.
Requests == {"r1", "r2"}

NoBody == [error |-> ""]

\* a request not made yet; fetches counts the calls of fetchJson the request
\* has made, timerArmed tells that the timer of its fetchJson is pending,
\* elapsedMs is the time its fetch has been waiting, abandoned tells that
\* the client gave the request up
IdleReq ==
  [kind |-> "idle", pc |-> "idle", query |-> NoQuery, options |-> NoOptions,
   idParam |-> <<>>, id |-> UndefNum,
   fetch |-> [kind |-> "none", status |-> 0], snapshot |-> <<>>,
   thrown |-> 0, status |-> 0, body |-> NoBody, products |-> <<>>,
   fetches |-> 0, timerArmed |-> FALSE, elapsedMs |-> 0, abandoned |-> FALSE]

(***************************************************************************)
(* The repository functions called on a caller's array (as the unit tests  *)
(* do): the array lives at reference 1 of the heap.                        *)
(***************************************************************************)
NoCall ==
  [fn |-> "none", arg |-> 0, ret |-> 0, pre |-> <<>>, filters |-> NoFilters,
   sort |-> UndefSort]

InitRepo ==
  /\ heap \in {<<MapToDomain(s)>> : s \in DtoLists}
  /\ call = NoCall
  /\ catalog = <<>>
  /\ reqs = [r \in Requests |-> IdleReq]

\* the heap and the call record after a call that came to res
Called(fn, filters, sort, res) ==
  /\ heap' = res.heap
  /\ call' = [fn |-> fn, arg |-> 1, ret |-> res.ret, pre |-> heap[1],
              filters |-> filters, sort |-> sort]

CallApplyFilters(filters) ==
  /\ call.fn = "none"
  /\ Called("applyFilters", filters, UndefSort,
            applyFiltersRef(heap, 1, filters))
  /\ UNCHANGED <<catalog, reqs>>

CallApplySort(sort) ==
  /\ call.fn = "none"
  /\ Called("applySort", NoFilters, sort, applySortRef(heap, 1, sort))
  /\ UNCHANGED <<catalog, reqs>>

\* the caller drops the result and keeps its own array
Discard ==
  /\ call.fn # "none"
  /\ heap' = <<heap[1]>>
  /\ call' = NoCall
  /\ UNCHANGED <<catalog, reqs>>

NextRepo ==
  \/ \E filters \in
          [search : {UndefStr, Str(<<>>), Str(<<"A">>), Str(<<"b">>),
            Str(<<"x", " ", "a">>)},
            category : {UndefStr, Str(<<>>), Str(<<"a">>), Str(<<"A">>),
                        Str(<<"b">>)},
            minPrice : {UndefNum, NaN, Num(0), Num(2)},
            maxPrice : {UndefNum, NaN, Num(0), Num(1)},
            maxStock : {UndefNum, Num(0), Num(1)}] :
       CallApplyFilters(filters)
  \/ \E sort \in {UndefSort, SortOf(""), SortOf("bogus")} \cup
                 {SortOf(s) : s \in SortOrders} :
       CallApplySort(sort)
  \/ Discard

SpecRepo == InitRepo /\ [][NextRepo]_vars

(***************************************************************************)
(* The route handlers.  A handler runs up to its await of the upstream     *)
(* fetch (the request is then "fetching"); when the fetch settles, the     *)
(* rest of the handler runs without another suspension and the request is  *)
(* "done" with its response.                                               *)
(***************************************************************************)
\* A plausible slip: the list fetched once for the page and once more for
\* the total.
fetchJsonStartTwice(req) ==
  [req EXCEPT !.pc = "fetching", !.fetches = @ + 2, !.timerArmed = TRUE]

\* fetchJson up to its await of fetch: the controller is made, the timer
\* armed and the one call of fetch issued
fetchJsonStart(req) ==
  [req EXCEPT !.pc = "fetching", !.fetches = @ + 1, !.timerArmed = TRUE]

\* GET /api/products up to the await
GetProducts(r, query) ==
  /\ reqs[r].pc = "idle"
  /\ reqs' = [reqs EXCEPT ![r] =
       fetchJsonStart([IdleReq EXCEPT !.kind = "products", !.query = query,
                                      !.options = ProductsRouteOptions(query)])]
  /\ UNCHANGED <<heap, call, catalog>>

\* getProductsPaginated called with options of the caller's own, up to the
\* await
CallGetProductsPaginated(r, options) ==
  /\ reqs[r].pc = "idle"
  /\ reqs' = [reqs EXCEPT ![r] =
       fetchJsonStart([IdleReq EXCEPT !.kind = "paginated",
                                      !.options = options])]
  /\ UNCHANGED <<heap, call, catalog>>

\* GET /api/products/insights up to the await
GetInsights(r, query) ==
  /\ reqs[r].pc = "idle"
  /\ reqs' = [reqs EXCEPT ![r] =
       fetchJsonStart(
         [IdleReq EXCEPT !.kind = "insights", !.query = query,
                         !.options =
                           [NoOptions EXCEPT
                              !.filters = InsightsRouteFilters(query)]])]
  /\ UNCHANGED <<heap, call, catalog>>

\* GET /api/categories up to the await
GetCategories(r) ==
  /\ reqs[r].pc = "idle"
  /\ reqs' = [reqs EXCEPT ![r] =
       fetchJsonStart([IdleReq EXCEPT !.kind = "categories"])]
  /\ UNCHANGED <<heap, call, catalog>>

\* A plausible slip: 0 let through as an id.
InvalidIdNegative(id) == id.k # "num" \/ id.n < 0

\* !Number.isFinite(id) || id <= 0
InvalidId(id) == id.k # "num" \/ id.n <= 0

\* GET /api/products/:id with the id parsed: the 400 of an invalid id, or
\* the request up to the await
ProductRequest(idParam, id) ==
  IF InvalidId(id)
  THEN [IdleReq EXCEPT !.kind = "product", !.pc = "done",
                       !.idParam = idParam, !.id = id, !.status = 400,
                       !.body = [error |-> "Invalid product id"]]
  ELSE fetchJsonStart([IdleReq EXCEPT !.kind = "product",
                                      !.idParam = idParam, !.id = id])

\* GET /api/products/:id up to the await, or to the 400 of an invalid id
GetProduct(r, idParam) ==
  /\ reqs[r].pc = "idle"
  /\ reqs' = [reqs EXCEPT ![r] = ProductRequest(idParam, parseInt(idParam))]
  /\ UNCHANGED <<heap, call, catalog>>

\* the JSON body of GET /api/products
ProductsBody(options, result) ==
  [items |-> result.items, total |-> result.total, page |-> result.page,
   pageSize |-> result.pageSize,
   pagination |-> [page |-> result.page, pageSize |-> result.pageSize,
                   total |-> result.total, totalPages |-> result.totalPages],
   appliedFilters |-> options.filters, sort |-> options.sort]

\* A plausible slip: the catch answering with the status of the HttpError.
ProductsResponseWithUpstreamStatus(options, result) ==
  IF result.ok
  THEN [status |-> 200, thrown |-> 0, products |-> <<>>,
        body |-> ProductsBody(options, result.value)]
  ELSE [status |-> result.status, thrown |-> 0, products |-> <<>>,
        body |-> [error |-> "Failed to fetch products from external API"]]

\* try { ... jsonWithCors({...}) } catch { ... 502 } of GET /api/products
ProductsResponse(options, result) ==
  IF result.ok
  THEN [status |-> 200, thrown |-> 0, products |-> <<>>,
        body |-> ProductsBody(options, result.value)]
  ELSE [status |-> 502, thrown |-> 0, products |-> <<>>,
        body |-> [error |-> "Failed to fetch products from external API"]]

\* what a direct call of getProductsPaginated comes to: its result (held in
\* pagination), or the HttpError it throws
CallResult(options, result) ==
  IF result.ok
  THEN [status |-> 0, thrown |-> 0, products |-> <<>>,
        body |-> ProductsBody(options, result.value)]
  ELSE [status |-> 0, thrown |-> result.status, products |-> <<>>,
        body |-> NoBody]

\* try { ... jsonWithCors(insights) } catch { ... 502 } of the insights route
InsightsResponse(insights) ==
  IF insights.ok
  THEN [status |-> 200, thrown |-> 0, body |-> insights.value,
        products |-> insights.products]
  ELSE [status |-> 502, thrown |-> 0, products |-> <<>>,
        body |-> [error |-> "Failed to compute product insights"]]

\* if (!product) 404, else the product; the catch of the route answers 502
\* to what getProductById throws
ProductResponse(product) ==
  IF ~product.found
  THEN [status |-> 404, thrown |-> 0, products |-> <<>>,
        body |-> [error |-> "Product not found"]]
  ELSE [status |-> 200, thrown |-> 0, products |-> <<>>,
        body |-> product.product]

\* try { ... jsonWithCors({ categories }) } catch { ... 502 } of
\* GET /api/categories
CategoriesResponse(allProducts) ==
  IF allProducts.ok
  THEN [status |-> 200, thrown |-> 0, products |-> <<>>,
        body |-> [categories |-> extractUniqueCategories(allProducts.value)]]
  ELSE [status |-> 502, thrown |-> 0, products |-> <<>>,
        body |-> [error |-> "Failed to fetch categories"]]

RouteResponse(req, outcome) ==
  CASE req.kind = "products" ->
         ProductsResponse(req.options,
                          getProductsPaginated(req.options, outcome))
    [] req.kind = "paginated" ->
         CallResult(req.options, getProductsPaginated(req.options, outcome))
    [] req.kind = "insights" ->
         InsightsResponse(getProductsInsights(req.options.filters, outcome))
    [] req.kind = "categories" -> CategoriesResponse(getAllProducts(outcome))
    [] req.kind = "product" -> ProductResponse(getProductById(outcome))

\* A plausible slip: the timer left pending when fetchJson settles.
TimerLeftPending(req) == req

\* finally { clearTimeout(timeoutId) }
clearTimeout(req) == [req EXCEPT !.timerArmed = FALSE]

\* the request once its fetch has settled, fetchJson has cleared its timer
\* and the handler has answered
Finished(req, outcome, response) ==
  [clearTimeout(req) EXCEPT !.pc = "done",
              !.fetch = [kind |-> outcome.kind, status |-> outcome.status],
              !.snapshot = catalog,
              !.thrown = response.thrown,
              !.status = response.status,
              !.body = response.body,
              !.products = response.products]

\* the fetch of request r settles with outcome and the handler runs to its
\* response
Settle(r, outcome) ==
  reqs' = [reqs EXCEPT ![r] =
             Finished(reqs[r], outcome, RouteResponse(reqs[r], outcome))]

\* A plausible slip: a module-level cache of the product list, filled by
\* the first request that fetched it and read by those that follow.
AnswersFromCache(r) ==
  /\ reqs[r].pc = "fetching"
  /\ Settle(r, IF reqs[r].kind = "product"
               THEN UpstreamById(catalog, reqs[r].id.n)
               ELSE IF \E o \in Requests :
                         /\ reqs[o].pc = "done"
                         /\ reqs[o].kind \notin {"product", "idle"}
                         /\ reqs[o].fetch =
                              [kind |-> "response", status |-> 200]
                    THEN UpstreamList(
                           reqs[CHOOSE o \in Requests :
                                  /\ reqs[o].pc = "done"
                                  /\ reqs[o].kind \notin {"product", "idle"}
                                  /\ reqs[o].fetch =
                                       [kind |-> "response", status |-> 200]
                               ].snapshot, MAX_PRODUCTS_PAGE_SIZE)
                    ELSE UpstreamList(catalog, MAX_PRODUCTS_PAGE_SIZE))
  /\ UNCHANGED <<heap, call, catalog>>

\* the upstream answers the fetch of request r from its product list
UpstreamAnswers(r) ==
  /\ reqs[r].pc = "fetching"
  /\ Settle(r, IF reqs[r].kind = "product"
               THEN UpstreamById(catalog, reqs[r].id.n)
               ELSE UpstreamList(catalog, MAX_PRODUCTS_PAGE_SIZE))
  /\ UNCHANGED <<heap, call, catalog>>

\* the fetch of request r fails
FetchFails(r, failure) ==
  /\ reqs[r].pc = "fetching"
  /\ Settle(r, failure)
  /\ UNCHANGED <<heap, call, catalog>>

InitServer ==
  /\ catalog \in DtoLists
  /\ reqs = [r \in Requests |-> IdleReq]
  /\ heap = <<>>
  /\ call = NoCall

RawOf(strings) == {NullStr} \cup {Str(s) : s \in strings}

(***************************************************************************)
(* Spec: the server with two requests, each of any route.                  *)
(***************************************************************************)
Queries ==
  { [NoQuery EXCEPT !.category = c, !.page = p] :
      c \in RawOf({<<"a">>}), p \in RawOf({<<"2">>}) }

Next ==
  \/ \E r \in Requests, query \in Queries : GetProducts(r, query)
  \/ \E r \in Requests, query \in Queries : GetInsights(r, query)
  \/ \E r \in Requests,
        idParam \in {<<"1">>, <<"3">>, <<"4">>, <<"0">>, <<"x">>,
                    <<"-", "1">>, <<"2", "x">>} :
       GetProduct(r, idParam)
  \/ \E r \in Requests : UpstreamAnswers(r)
  \/ \E r \in Requests, failure \in FetchFailures : FetchFails(r, failure)

Spec == InitServer /\ [][Next]_vars

(***************************************************************************)
(* SpecPage: one listing asked for twice, for any two pages.  "r1" calls   *)
(* getProductsPaginated with options of its own (any integer page and page *)
(* size, or none); once it has its result, "r2" asks for the same criteria *)
(* and sort order through GET /api/products with raw query strings, so     *)
(* that what the two return differs by the page alone.                     *)
(***************************************************************************)
MaxPage == 4
MaxPageSize == 2

\* "r2" asks once "r1" has returned, for the criteria and the order of "r1"
NextPage ==
  \/ /\ reqs["r1"].pc = "idle"
     /\ \E c \in {UndefStr} \cup {Str(<<"a">>)},
           s \in {UndefSort} \cup {SortOf("price_desc"), SortOf("title_asc")},
           p \in {UndefNum} \cup {Num(n) : n \in -1..MaxPage},
           z \in {UndefNum} \cup {Num(n) : n \in 0..MaxPageSize} :
          CallGetProductsPaginated("r1",
            [filters |-> [NoFilters EXCEPT !.category = c], sort |-> s,
             page |-> p, pageSize |-> z])
  \/ /\ reqs["r2"].pc = "idle"
     /\ reqs["r1"].pc = "done"
     /\ \E c \in RawOf({<<"a">>}),
           s \in {NullSort} \cup {SortOf("price_desc"), SortOf("title_asc")},
           p \in RawOf({<<"x">>, <<"2">>}),
           z \in RawOf({<<"0">>, <<"2", "x">>}) :
          /\ reqs["r1"].options.filters.category = Coalesce(c, UndefStr)
          /\ reqs["r1"].options.sort = Coalesce(s, UndefSort)
          /\ GetProducts("r2", [NoQuery EXCEPT !.category = c, !.sort = s,
                                               !.page = p, !.pageSize = z])
  \/ \E r \in Requests : UpstreamAnswers(r)

SpecPage == InitServer /\ [][NextPage]_vars

(***************************************************************************)
(* SpecSym: the listing ("r1") and the insights ("r2") asked for with the  *)
(* same raw filter parameters.                                             *)
(***************************************************************************)
FilterParams == {"search", "q", "category", "minPrice", "maxPrice", "maxStock"}

SymQueries ==
  { [NoQuery EXCEPT !.search = s, !.q = q, !.category = c, !.minPrice = lo,
                    !.maxPrice = hi, !.maxStock = st] :
      s \in RawOf({<<"A">>}), q \in RawOf({<<"b">>}),
      c \in RawOf({<<"a">>}), lo \in RawOf({<<"2">>, <<"b">>}),
      hi \in RawOf({<<"x">>}), st \in RawOf({<<>>, <<"1">>, <<"1", "x">>}) }

\* request other has not been made, or has the filter parameters of query
SameFilterParams(other, query) ==
  \/ reqs[other].pc = "idle"
  \/ \A f \in FilterParams : reqs[other].query[f] = query[f]

NextSym ==
  \/ /\ reqs["r1"].pc = "idle"
     /\ \E query \in SymQueries,
             pg \in {[page |-> NullStr, pageSize |-> NullStr],
                     [page |-> Str(<<"2">>), pageSize |-> Str(<<"1">>)]} :
          /\ SameFilterParams("r2", query)
          /\ GetProducts("r1", [query EXCEPT !.page = pg.page,
                                             !.pageSize = pg.pageSize])
  \/ /\ reqs["r2"].pc = "idle"
     /\ \E query \in SymQueries :
          SameFilterParams("r1", query) /\ GetInsights("r2", query)
  \/ \E r \in Requests : UpstreamAnswers(r)

SpecSym == InitServer /\ [][NextSym]_vars

(***************************************************************************)
(* SpecInsights: one insights request over a snapshot of up to MaxInsights *)
(* records, more than the top-rated list holds.  The records carry         *)
(* categories that tie in count, an empty category, stocks on both sides   *)
(* of the low-stock threshold and ratings that tie.                        *)
(***************************************************************************)
MaxInsights == 6

InsightsDto(id, category, price, rating, stock) ==
  [id |-> id, title |-> <<"a">>, description |-> <<>>, price |-> price,
   category |-> category, thumbnail |-> <<"t">>, rating |-> rating,
   stock |-> stock, brand |-> <<>>, images |-> <<>>,
   discountPercentage |-> 0]

InitInsights ==
  /\ catalog \in
       UNION { { s \in [1..n -> { InsightsDto(1, <<"a">>, 999, 45, 50),
                                  InsightsDto(2, <<"b">>, 799, 47, 30),
                                  InsightsDto(3, <<"b">>, 1999, 45, 5),
                                  InsightsDto(4, <<"a">>, 1299, 30, 20),
                                  InsightsDto(5, <<>>, 1, 47, 9),
                                  InsightsDto(6, <<>>, 2, 50, 10),
                                  InsightsDto(7, <<"x">>, 0, 45, 0) }] :
                   \A i, j \in 1..n : i # j => s[i].id # s[j].id } :
               n \in 0..MaxInsights }
  /\ reqs = [r \in Requests |-> IdleReq]
  /\ heap = <<>>
  /\ call = NoCall

NextInsights ==
  \/ /\ reqs["r1"].pc = "idle"
     /\ \E query \in {[NoQuery EXCEPT !.category = c] :
                          c \in RawOf({<<"b">>})} :
          GetInsights("r1", query)
  \/ UpstreamAnswers("r1")

SpecInsights == InitInsights /\ [][NextInsights]_vars

(***************************************************************************)
(* SpecCategories: one categories request over a snapshot of up to         *)
(* MaxCategories records, in any order.  The categories differ by case and *)
(* by the spaces around them; one is empty and one is blank.               *)
(***************************************************************************)
MaxCategories == 4

InitCategories ==
  /\ catalog \in
       UNION { { s \in [1..n -> { InsightsDto(1, <<"b">>, 1, 10, 1),
                                  InsightsDto(2, <<" ", "a">>, 1, 10, 1),
                                  InsightsDto(3, <<"a">>, 1, 10, 1),
                                  InsightsDto(4, <<"A">>, 1, 10, 1),
                                  InsightsDto(5, <<>>, 1, 10, 1),
                                  InsightsDto(6, <<" ">>, 1, 10, 1),
                                  InsightsDto(7, <<"b", " ">>, 1, 10, 1) }] :
                   \A i, j \in 1..n : i # j => s[i].id # s[j].id } :
               n \in 0..MaxCategories }
  /\ reqs = [r \in Requests |-> IdleReq]
  /\ heap = <<>>
  /\ call = NoCall

NextCategories ==
  \/ GetCategories("r1")
  \/ UpstreamAnswers("r1")

SpecCategories == InitCategories /\ [][NextCategories]_vars

(***************************************************************************)
(* SpecConc: two requests, each of any route, interleaved around their     *)
(* awaits in any order, while the upstream's product list changes: what a  *)
(* fetch is answered with is the list of the moment of the answer.         *)
(***************************************************************************)
\* the upstream drops the first product of its list
UpstreamChanges ==
  /\ catalog # <<>>
  /\ catalog' = Tail(catalog)
  /\ UNCHANGED <<heap, call, reqs>>

NextConc ==
  \/ \E r \in Requests, c \in RawOf({<<"a">>}) :
       GetProducts(r, [NoQuery EXCEPT !.category = c])
  \/ \E r \in Requests : GetInsights(r, NoQuery)
  \/ \E r \in Requests : GetCategories(r)
  \/ \E r \in Requests, idParam \in {<<"1">>, <<"3">>, <<"x">>} :
       GetProduct(r, idParam)
  \/ \E r \in Requests : UpstreamAnswers(r)
  \/ \E r \in Requests : FetchFails(r, NetworkError)
  \/ UpstreamChanges

SpecConc == InitServer /\ [][NextConc]_vars

(***************************************************************************)
(* SpecFetch: a call of getProductsPaginated or a product lookup ("r1")    *)
(* and a listing or insights request ("r2"), with the time their fetch     *)
(* takes.  fetchJson arms a timer of timeoutMs when it starts the fetch;   *)
(* time passes in steps of TickMs while the fetch waits, and not beyond    *)
(* the moment the timer is due without the timer's callback being run.     *)
(* The upstream may answer or fail at any moment, or never.  The event     *)
(* loop is free while the handler awaits, so time passes and a due timer   *)
(* fires: both are weakly fair; nothing is assumed of the upstream.        *)
(***************************************************************************)
timeoutMs == 10000
TickMs == 5000

\* time passes while the fetch of request r waits and its timer is not due
TimePasses(r) ==
  /\ reqs[r].pc = "fetching"
  /\ reqs[r].elapsedMs < timeoutMs
  /\ reqs' = [reqs EXCEPT ![r].elapsedMs = @ + TickMs]
  /\ UNCHANGED <<heap, call, catalog>>

\* A plausible slip: the signal not handed to fetch, so that the abort
\* ends nothing.
TimeoutWithoutSignal(r) ==
  /\ reqs[r].pc = "fetching"
  /\ reqs[r].elapsedMs >= timeoutMs
  /\ UNCHANGED vars

\* setTimeout(() => controller.abort(), timeoutMs): the timer of request r
\* is due, the fetch is aborted and the handler runs to its response
TimeoutFires(r) ==
  /\ reqs[r].pc = "fetching"
  /\ reqs[r].timerArmed
  /\ reqs[r].elapsedMs >= timeoutMs
  /\ Settle(r, Aborted)
  /\ UNCHANGED <<heap, call, catalog>>

\* The client gives request r up while its fetch is in flight and its
\* timer is not due.  No handler reads request.signal and fetchJson aborts
\* on its own controller only, so nothing of the request changes but the
\* fact.
ClientAbandons(r) ==
  /\ reqs[r].pc = "fetching"
  /\ reqs[r].elapsedMs < timeoutMs
  /\ ~reqs[r].abandoned
  /\ reqs' = [reqs EXCEPT ![r].abandoned = TRUE]
  /\ UNCHANGED <<heap, call, catalog>>

NextFetch ==
  \/ CallGetProductsPaginated("r1", NoOptions)
  \/ \E idParam \in {<<"1">>, <<"x">>} : GetProduct("r1", idParam)
  \/ GetProducts("r2", NoQuery)
  \/ GetInsights("r2", NoQuery)
  \/ ClientAbandons("r2")
  \/ \E r \in Requests : TimePasses(r)
  \/ \E r \in Requests : TimeoutFires(r)
  \/ \E r \in Requests : UpstreamAnswers(r)
  \/ \E r \in Requests, failure \in FetchFailures \ {Aborted} :
       FetchFails(r, failure)

SpecFetch ==
  /\ InitServer
  /\ [][NextFetch]_vars
  /\ \A r \in Requests : WF_vars(TimePasses(r)) /\ WF_vars(TimeoutFires(r))

(***************************************************************************)
(* Properties of applyFilters and applySort, checked under SpecRepo.       *)
(***************************************************************************)
\* the array a call returned, and whether x is one of arr's elements
Returned == heap[call.ret]
InArray(x, arr) == \E i \in DOMAIN arr : arr[i] = x
PosIn(arr, x) == CHOOSE i \in DOMAIN arr : arr[i] = x

\* needle is a contiguous piece of hay
Contained(needle, hay) ==
  \E a \in 0..Len(hay) : \E b \in a..Len(hay) : SubSeq(hay, a + 1, b) = needle

SearchText(p) ==
  toLowerCase(p.title) \o <<" ">> \o toLowerCase(p.description) \o <<" ">>
    \o toLowerCase(p.category)

\* every criterion that is given holds of p: a category or a search that
\* is a string (the empty one included), a bound that is a number (NaN,
\* which orders no price, is taken to bound nothing)
AllGivenHold(p, f) ==
  /\ f.category.k = "str" => p.category = f.category.s
  /\ f.minPrice.k = "num" => p.price >= f.minPrice.n
  /\ f.maxPrice.k = "num" => p.price <= f.maxPrice.n
  /\ f.maxStock.k = "num" => p.stock <= f.maxStock.n
  /\ f.search.k = "str" => Contained(toLowerCase(f.search.s), SearchText(p))

\* C2 as stated: applyFilters keeps a record iff every criterion present in
\* the criteria holds of it, a category given as the empty string and every
\* value of a numeric bound included.
C2_KeepsIffAllGivenHold ==
  call.fn = "applyFilters" =>
    \A i \in DOMAIN call.pre :
      InArray(call.pre[i], Returned) <=> AllGivenHold(call.pre[i], call.filters)

\* every criterion that is in effect holds of p: a category is in effect
\* when it is a non-empty string, a numeric bound when it is a number other
\* than NaN (0 included)
AllEffectiveHold(p, f) ==
  /\ (f.category.k = "str" /\ f.category.s # <<>>) => p.category = f.category.s
  /\ f.minPrice.k = "num" => p.price >= f.minPrice.n
  /\ f.maxPrice.k = "num" => p.price <= f.maxPrice.n
  /\ f.maxStock.k = "num" => p.stock <= f.maxStock.n
  /\ f.search.k = "str" => Contained(toLowerCase(f.search.s), SearchText(p))

\* C2 amended: applyFilters keeps a record iff every criterion in effect
\* holds of it; a category given as the empty string, like an absent one,
\* and a numeric bound that is NaN exclude no record, and a bound of 0 is a
\* bound.
C2_KeepsIffAllEffectiveHold ==
  call.fn = "applyFilters" =>
    \A i \in DOMAIN call.pre :
      InArray(call.pre[i], Returned)
        <=> AllEffectiveHold(call.pre[i], call.filters)

\* C2's case: an empty-string category and a bound of 0 in one call that
\* keeps a record of a non-empty category and drops another
C2_Witness ==
  /\ call.fn = "applyFilters"
  /\ call.filters.category = Str(<<>>)
  /\ call.filters.maxStock = Num(0)
  /\ \E i \in DOMAIN Returned : Returned[i].category # <<>>
  /\ Len(Returned) < Len(call.pre)

\* C8: applySort leaves the caller's array as it was and returns another
\* array; without a sort order that array equals the input.
C8_SortDoesNotMutate ==
  call.fn = "applySort" =>
    /\ heap[call.arg] = call.pre
    /\ call.ret # call.arg
    /\ FalsySort(call.sort) => Returned = call.pre

\* C8's case: a sort that returns the elements in another order
C8_Witness ==
  /\ call.fn = "applySort"
  /\ call.sort.s \in SortOrders
  /\ Returned # call.pre
  /\ Len(call.pre) = MaxLen

\* a comes strictly before b in the order sort names
StrictlyBefore(sort, a, b) ==
  CASE sort = "price_asc" -> a.price < b.price
    [] sort = "price_desc" -> a.price > b.price
    [] sort = "rating_asc" -> a.rating < b.rating
    [] sort = "rating_desc" -> a.rating > b.rating
    [] sort = "title_asc" -> localeCompare(a.title, b.title) < 0
    [] sort = "title_desc" -> localeCompare(a.title, b.title) > 0

\* out is arr reordered by sort: the same elements, no pair out of order,
\* elements with equal keys in their order in arr
IsStableSortOf(out, arr, sort) ==
  /\ Len(out) = Len(arr)
  /\ \A i \in DOMAIN arr : InArray(arr[i], out)
  /\ \A i, j \in DOMAIN out :
       i < j => /\ ~StrictlyBefore(sort, out[j], out[i])
                /\ ~StrictlyBefore(sort, out[i], out[j])
                     => PosIn(arr, out[i]) < PosIn(arr, out[j])

\* C9: for each of the six sort orders applySort returns a permutation of
\* its input ordered by the key in the direction, equal keys in input order.
C9_SortedAndStable ==
  (call.fn = "applySort" /\ call.sort.s \in SortOrders) =>
    IsStableSortOf(Returned, call.pre, call.sort.s)

\* C9's case: a descending sort that moves elements and meets a tie
C9_Witness ==
  /\ call.fn = "applySort"
  /\ call.sort.s \in {"price_desc", "rating_desc", "title_desc"}
  /\ Returned # call.pre
  /\ \E i, j \in DOMAIN Returned :
       /\ i < j
       /\ ~StrictlyBefore(call.sort.s, Returned[i], Returned[j])

\* r is s with some elements left out
IsSubsequence(r, s) ==
  \E f \in [DOMAIN r -> DOMAIN s] :
    /\ \A i, j \in DOMAIN r : i < j => f[i] < f[j]
    /\ \A i \in DOMAIN r : r[i] = s[f[i]]

\* C10: applyFilters returns a subsequence of its input (input records, in
\* input order, none twice) and leaves the input array as it was.
C10_FilterSubsequence ==
  call.fn = "applyFilters" =>
    /\ IsSubsequence(Returned, call.pre)
    /\ \A i, j \in DOMAIN Returned : i # j => Returned[i] # Returned[j]
    /\ heap[call.arg] = call.pre

\* C10's case: a filter that drops a record from between two it keeps
C10_Witness ==
  /\ call.fn = "applyFilters"
  /\ Len(call.pre) = 3
  /\ Returned = <<call.pre[1], call.pre[3]>>

(***************************************************************************)
(* Properties of the listing, checked under SpecPage.                      *)
(***************************************************************************)
\* request r is a listing that has returned its page
Listed(r) ==
  /\ reqs[r].kind \in {"products", "paginated"}
  /\ reqs[r].pc = "done"
  /\ reqs[r].thrown = 0
  /\ reqs[r].status \in {0, 200}

\* the records of r's snapshot that pass r's criteria, in snapshot order
Passing(r) ==
  SelectSeq(MapToDomain(reqs[r].snapshot),
            LAMBDA p : AllEffectiveHold(p, reqs[r].options.filters))

\* arr[i] comes before arr[j] in the order sort names, ties and the absence
\* of an order settled by the position in arr
Precedes(sort, arr, i, j) ==
  IF sort.k = "str" /\ sort.s \in SortOrders
  THEN \/ StrictlyBefore(sort.s, arr[i], arr[j])
       \/ ~StrictlyBefore(sort.s, arr[j], arr[i]) /\ i < j
  ELSE i < j

\* how many elements of arr come before arr[i]
Rank(sort, arr, i) ==
  Cardinality({j \in DOMAIN arr : j # i /\ Precedes(sort, arr, j, i)})

\* the listing projection: these seven fields and no other
ListingProjection(p) ==
  [id |-> p.id, title |-> p.title, price |-> p.price,
   category |-> p.category, thumbnail |-> p.thumbnail, rating |-> p.rating,
   stock |-> p.stock]

\* items is the window of pageSize ranks from start of arr ordered by sort
IsPageOf(items, arr, sort, start, pageSize) ==
  /\ Len(items) =
       Cardinality({i \in DOMAIN arr :
                      Rank(sort, arr, i) \in start..(start + pageSize - 1)})
  /\ \A k \in DOMAIN items :
       \E i \in DOMAIN arr :
         /\ Rank(sort, arr, i) = start + k - 1
         /\ items[k] = ListingProjection(arr[i])

\* C1: the items getProductsPaginated returns are the listing projections
\* of the slice [(page-1)*pageSize, page*pageSize) of the records that pass
\* the filter, put in the sort order: filter, then sort, then pagination.
C1_FilterSortPaginate ==
  \A r \in Requests :
    Listed(r) =>
      IsPageOf(reqs[r].body.items, Passing(r), reqs[r].options.sort,
               (reqs[r].body.page - 1) * reqs[r].body.pageSize,
               reqs[r].body.pageSize)

\* C1's case: a page of a filtered and sorted listing that is neither what
\* the head of the snapshot holds nor in snapshot order
C1_Witness ==
  \E r \in Requests :
    /\ Listed(r)
    /\ reqs[r].options.filters.category.k = "str"
    /\ reqs[r].options.sort.k = "str"
    /\ reqs[r].body.pageSize = 1
    /\ reqs[r].body.page = 2
    /\ Len(reqs[r].snapshot) = MaxLen
    /\ Len(Passing(r)) = 2
    /\ reqs[r].body.items = <<ListingProjection(Passing(r)[1])>>
    /\ reqs[r].snapshot[1].category # "a"

\* C4: totalPages >= 1 and 1 <= page <= totalPages for every record set,
\* page and page size; over an empty filtered set totalPages = 1, page = 1
\* and there are no items.
C4_PageWithinBounds ==
  \A r \in Requests :
    Listed(r) =>
      /\ reqs[r].body.pagination.totalPages >= 1
      /\ reqs[r].body.page >= 1
      /\ reqs[r].body.page <= reqs[r].body.pagination.totalPages
      /\ Passing(r) = <<>> =>
           /\ reqs[r].body.pagination.totalPages = 1
           /\ reqs[r].body.page = 1
           /\ reqs[r].body.items = <<>>

\* C4's case: a page beyond the first asked of a listing whose filter
\* leaves no record of a snapshot that has some
C4_Witness ==
  \E r \in Requests :
    /\ Listed(r)
    /\ reqs[r].snapshot # <<>>
    /\ Passing(r) = <<>>
    /\ reqs[r].options.page = Num(MaxPage)
    /\ reqs[r].body.page = 1

\* the page and the page size a request asked getProductsPaginated for
AskedPage(r) ==
  IF reqs[r].options.page.k = "undef" THEN 1 ELSE reqs[r].options.page.n
AskedPositiveSize(r) ==
  reqs[r].options.pageSize.k = "num" /\ reqs[r].options.pageSize.n > 0

\* the page size is the default unless a positive one was asked for; the
\* page is the one asked for, brought into 1..totalPages
DefaultedAndClamped(r) ==
  /\ reqs[r].body.pageSize =
       IF AskedPositiveSize(r) THEN reqs[r].options.pageSize.n
       ELSE DEFAULT_PAGE_SIZE
  /\ AskedPage(r) < 1 => reqs[r].body.page = 1
  /\ AskedPage(r) > reqs[r].body.pagination.totalPages =>
       reqs[r].body.page = reqs[r].body.pagination.totalPages
  /\ AskedPage(r) \in 1..reqs[r].body.pagination.totalPages =>
       reqs[r].body.page = AskedPage(r)

AllDigits(s) == s # <<>> /\ \A i \in DOMAIN s : IsDigit(s[i])

\* the parameter is the decimal numeral of a positive integer
PositiveNumeral(raw) ==
  /\ raw.k = "str"
  /\ AllDigits(raw.s)
  /\ \E i \in DOMAIN raw.s : raw.s[i] # "0"

\* C5 as stated: page size and page are defaulted and clamped, and at the
\* handler a page or pageSize parameter that is missing, non-numeric or
\* non-positive is defaulted (page 1, page size 20), the request answered.
C5_BadParametersDefaulted ==
  \A r \in Requests :
    Listed(r) =>
      /\ DefaultedAndClamped(r)
      /\ reqs[r].kind = "products" =>
           /\ reqs[r].status = 200
           /\ ~PositiveNumeral(reqs[r].query.page) => reqs[r].body.page = 1
           /\ ~PositiveNumeral(reqs[r].query.pageSize) =>
                reqs[r].body.pageSize = DEFAULT_PAGE_SIZE

\* the parameter begins with the decimal numeral of n: its longest prefix
\* of digits is not empty and has the value n
BeginsWithInteger(raw, n) ==
  /\ raw.k = "str"
  /\ \E m \in DOMAIN raw.s :
       /\ AllDigits(SubSeq(raw.s, 1, m))
       /\ m = Len(raw.s) \/ ~IsDigit(raw.s[m + 1])
       /\ DecimalValue(SubSeq(raw.s, 1, m)) = n

\* the parameter is missing, empty, begins with a character that is no
\* digit, plus sign or blank, or begins with a numeral of 0
NoPositiveInteger(raw) ==
  \/ raw.k = "null"
  \/ raw.s = <<>>
  \/ ~IsDigit(raw.s[1]) /\ raw.s[1] \notin {"+", " "}
  \/ BeginsWithInteger(raw, 0)

\* C5 amended: page size and page are defaulted and clamped, and at the
\* handler a page or pageSize parameter that does not begin with a positive
\* integer is defaulted, while one that begins with a positive integer is
\* taken as that integer whatever follows it; the request is answered.
C5_LeadingIntegerOrDefault ==
  \A r \in Requests :
    Listed(r) =>
      /\ DefaultedAndClamped(r)
      /\ reqs[r].kind = "products" =>
           /\ reqs[r].status = 200
           /\ NoPositiveInteger(reqs[r].query.page) => AskedPage(r) = 1
           /\ NoPositiveInteger(reqs[r].query.pageSize) =>
                reqs[r].body.pageSize = DEFAULT_PAGE_SIZE
           /\ \A n \in 1..MaxPage :
                /\ BeginsWithInteger(reqs[r].query.page, n) =>
                     AskedPage(r) = n
                /\ BeginsWithInteger(reqs[r].query.pageSize, n) =>
                     reqs[r].body.pageSize = n

\* C5's case: the last page asked for with no usable page size over a full
\* snapshot, answered with page 1 of 1 and every record
C5_Witness ==
  \E r \in Requests :
    /\ Listed(r)
    /\ ~AskedPositiveSize(r)
    /\ AskedPage(r) = MaxPage
    /\ Len(Passing(r)) = MaxLen
    /\ reqs[r].body.page = 1
    /\ reqs[r].body.pagination.totalPages = 1
    /\ Len(reqs[r].body.items) = MaxLen

\* C6: the total is the number of records that pass the filter, and two
\* requests for the same records, criteria and sort order get the same
\* total whatever page and page size each asks for.
C6_TotalIndependentOfPage ==
  /\ \A r \in Requests : Listed(r) => reqs[r].body.total = Len(Passing(r))
  /\ (Listed("r1") /\ Listed("r2")) =>
       reqs["r1"].body.total = reqs["r2"].body.total

\* C6's case: two pages of one listing, of different page sizes, one of them
\* holding fewer records than pass the filter
C6_Witness ==
  /\ Listed("r1") /\ Listed("r2")
  /\ reqs["r1"].body.pageSize # reqs["r2"].body.pageSize
  /\ reqs["r1"].body.page # reqs["r2"].body.page
  /\ Len(reqs["r1"].body.items) < reqs["r1"].body.total
  /\ reqs["r1"].body.total < Len(reqs["r1"].snapshot)

(***************************************************************************)
(* Insights symmetry, checked under SpecSym.                               *)
(***************************************************************************)
\* request r is an insights request that has returned its aggregates
Aggregated(r) ==
  /\ reqs[r].kind = "insights"
  /\ reqs[r].pc = "done"
  /\ reqs[r].status = 200

IdsOf(records) == {records[i].id : i \in DOMAIN records}

\* C3: for the same filter query parameters and the same snapshot, both
\* handlers come to the same criteria, and the records the insights are
\* computed over are the records the listing counts and pages through:
\* totalProducts equals total, every listing item is the projection of one
\* of them, and a listing of one page shows them all.
C3_InsightsSymmetry ==
  ( /\ Listed("r1")
    /\ Aggregated("r2")
    /\ \A f \in FilterParams : reqs["r1"].query[f] = reqs["r2"].query[f]
    /\ reqs["r1"].snapshot = reqs["r2"].snapshot ) =>
      /\ reqs["r1"].options.filters = reqs["r2"].options.filters
      /\ reqs["r2"].products = Passing("r1")
      /\ reqs["r2"].body.totalProducts = reqs["r1"].body.total
      /\ \A k \in DOMAIN reqs["r1"].body.items :
           \E i \in DOMAIN reqs["r2"].products :
             reqs["r1"].body.items[k] =
               ListingProjection(reqs["r2"].products[i])
      /\ reqs["r1"].body.pagination.totalPages = 1 =>
           IdsOf(reqs["r1"].body.items) = IdsOf(reqs["r2"].products)

\* C3's case: an empty maxStock parameter and criteria that keep some
\* records of the snapshot and drop others, the listing of several pages
C3_Witness ==
  /\ Listed("r1")
  /\ Aggregated("r2")
  /\ reqs["r1"].query.maxStock = Str(<<>>)
  /\ reqs["r2"].query.maxStock = Str(<<>>)
  /\ reqs["r1"].body.pagination.totalPages >= 2
  /\ reqs["r2"].body.totalProducts >= 2
  /\ reqs["r2"].body.totalProducts < Len(reqs["r2"].snapshot)

(***************************************************************************)
(* The single-product lookup, checked under Spec.                          *)
(***************************************************************************)
\* the fetch ended by the timeout, by a network error, or with a status
\* that is neither success nor 404
TransportFailure(fetch) ==
  \/ fetch.kind \in {"abort", "network"}
  \/ fetch.kind = "response" /\ fetch.status \notin {200, 404}

\* C7 as stated: a single-product lookup whose fetch fails by timeout,
\* network error or a status other than 404 is answered 502, and 404 is
\* answered only when the upstream said 404.
C7_TransportFailureIs502 ==
  \A r \in Requests :
    (reqs[r].kind = "product" /\ reqs[r].pc = "done" /\ reqs[r].status # 400)
      => /\ TransportFailure(reqs[r].fetch) => reqs[r].status = 502
         /\ reqs[r].status = 404 =>
              reqs[r].fetch = [kind |-> "response", status |-> 404]

(***************************************************************************)
(* The search criterion, checked under SpecRepo.                           *)
(***************************************************************************)
UpperChar(c) ==
  CASE c = "a" -> "A"
    [] c = "b" -> "B"
    [] c = "x" -> "X"
    [] OTHER -> c

toUpperCase(s) == [i \in DOMAIN s |-> UpperChar(s[i])]

\* the call's criteria with another search text
WithSearch(s) == [call.filters EXCEPT !.search = Str(s)]

\* C11: a record is kept by the search criterion iff the lowercased search
\* text occurs in the lowercased title, description and category joined by
\* single spaces, and the search text in upper case or in lower case selects
\* the same records.
C11_SearchCaseInsensitive ==
  (call.fn = "applyFilters" /\ call.filters.search.k = "str") =>
    /\ \A i \in DOMAIN call.pre :
         InArray(call.pre[i], Returned) <=>
           /\ AllEffectiveHold(call.pre[i],
                               [call.filters EXCEPT !.search = UndefStr])
           /\ Contained(toLowerCase(call.filters.search.s),
                        SearchText(call.pre[i]))
    /\ applyFilters(call.pre, WithSearch(toUpperCase(call.filters.search.s)))
         = Returned
    /\ applyFilters(call.pre, WithSearch(toLowerCase(call.filters.search.s)))
         = Returned

\* C11's case: a search text in upper case, alone among the criteria, that
\* keeps some records and drops others
C11_Witness ==
  /\ call.fn = "applyFilters"
  /\ call.filters = [NoFilters EXCEPT !.search = Str(<<"A">>)]
  /\ Len(Returned) > 0
  /\ Len(Returned) < Len(call.pre)

(***************************************************************************)
(* Properties of the insights, checked under SpecInsights.  The records    *)
(* the aggregates are of are the records of the request's snapshot that    *)
(* pass its criteria.  An average is a fraction num / den; den = 0 stands  *)
(* for the NaN a division of 0 by 0 gives.                                 *)
(***************************************************************************)
\* the fraction q is the number n
IsExactly(q, n) == q.den # 0 /\ q.num = n * q.den

\* C12: over the empty record set the three averages are exactly 0,
\* totalProducts and totalStock are 0, mostCommonCategory is null,
\* lowStockCount is 0, topRatedProducts and stockByCategory are empty.
C12_InsightsOfEmptySet ==
  (Aggregated("r1") /\ Passing("r1") = <<>>) =>
    /\ IsExactly(reqs["r1"].body.averagePriceGlobal, 0)
    /\ IsExactly(reqs["r1"].body.averageRatingGlobal, 0)
    /\ IsExactly(reqs["r1"].body.averageStockGlobal, 0)
    /\ reqs["r1"].body.totalProducts = 0
    /\ reqs["r1"].body.totalStock = 0
    /\ reqs["r1"].body.mostCommonCategory.isNull
    /\ reqs["r1"].body.lowStockCount = 0
    /\ reqs["r1"].body.topRatedProducts = <<>>
    /\ reqs["r1"].body.stockByCategory = <<>>

\* C12's case: criteria that leave no record of a snapshot that has some
C12_Witness ==
  /\ Aggregated("r1")
  /\ Passing("r1") = <<>>
  /\ Len(reqs["r1"].snapshot) > 1

\* the number of the records that carry the category
CategoryCount(products, category) ==
  Cardinality({i \in 1..Len(products) : products[i].category = category})

\* the greatest number of records one category has
GreatestCount(products) ==
  CHOOSE n \in 0..Len(products) :
    /\ \A i \in 1..Len(products) :
         CategoryCount(products, products[i].category) <= n
    /\ \/ products = <<>>
       \/ \E i \in 1..Len(products) :
            CategoryCount(products, products[i].category) = n

\* C13: mostCommonCategory is absent exactly when the record set is empty;
\* for a non-empty set, whatever its category strings, it is present, its
\* count is the greatest per-category count and its name is a category
\* that has that count.
C13_MostCommonPresentIffNonEmpty ==
  Aggregated("r1") =>
    /\ reqs["r1"].body.mostCommonCategory.isNull <=> (Passing("r1") = <<>>)
    /\ Passing("r1") # <<>> =>
         /\ reqs["r1"].body.mostCommonCategory.count =
              GreatestCount(Passing("r1"))
         /\ CategoryCount(Passing("r1"),
                          reqs["r1"].body.mostCommonCategory.name) =
              GreatestCount(Passing("r1"))

\* the categories that have the greatest count
TiedCategories(products) ==
  {products[i].category : i \in
     {j \in 1..Len(products) :
        CategoryCount(products, products[j].category) =
          GreatestCount(products)}}

\* the position of the first record of the category
FirstSeen(products, category) ==
  CHOOSE i \in 1..Len(products) :
    /\ products[i].category = category
    /\ \A j \in 1..(i - 1) : products[j].category # category

\* the position of the record with which the category reaches the count n
ReachedAt(products, category, n) ==
  CHOOSE i \in 1..Len(products) :
    /\ products[i].category = category
    /\ CategoryCount(SubSeq(products, 1, i), category) = n

\* of the tied categories, the one that is first to reach the greatest
\* count while the input is read in order
FirstToReach(products) ==
  CHOOSE c \in TiedCategories(products) :
    \A d \in TiedCategories(products) :
      ReachedAt(products, c, GreatestCount(products)) <=
        ReachedAt(products, d, GreatestCount(products))

\* of the tied categories, the one whose first record comes first
FirstSeenOfTied(products) ==
  CHOOSE c \in TiedCategories(products) :
    \A d \in TiedCategories(products) :
      FirstSeen(products, c) <= FirstSeen(products, d)

\* C14 as stated: when several categories tie for the greatest count, the
\* mostCommonCategory that is returned names the first category to reach
\* that count while iterating the input in order.
C14_FirstToReachMaximumWins ==
  (/\ Aggregated("r1")
   /\ Cardinality(TiedCategories(Passing("r1"))) > 1
   /\ ~reqs["r1"].body.mostCommonCategory.isNull) =>
    reqs["r1"].body.mostCommonCategory.name = FirstToReach(Passing("r1"))

\* C14 amended: when several categories tie for the greatest count, the
\* winner is the tied category whose first record comes first in the input
\* (the counts are compared after the whole input is counted, in the order
\* the categories were first seen), whichever of them reached the count
\* first; when that category is the empty string, null is returned.
C14_FirstSeenOfTiedWins ==
  (/\ Aggregated("r1")
   /\ Cardinality(TiedCategories(Passing("r1"))) > 1) =>
    IF FirstSeenOfTied(Passing("r1")) = <<>>
    THEN reqs["r1"].body.mostCommonCategory.isNull
    ELSE /\ ~reqs["r1"].body.mostCommonCategory.isNull
         /\ reqs["r1"].body.mostCommonCategory.name =
              FirstSeenOfTied(Passing("r1"))
         /\ reqs["r1"].body.mostCommonCategory.count =
              GreatestCount(Passing("r1"))

\* C14's case: a tie in which the category seen first is not the one that
\* reaches the greatest count first
C14_Witness ==
  /\ Aggregated("r1")
  /\ Cardinality(TiedCategories(Passing("r1"))) > 1
  /\ GreatestCount(Passing("r1")) > 1
  /\ ~reqs["r1"].body.mostCommonCategory.isNull
  /\ FirstSeenOfTied(Passing("r1")) # FirstToReach(Passing("r1"))

\* the position in the record set of the record the item i of the top
\* rated list projects
SourceOf(r, i) ==
  CHOOSE j \in 1..Len(Passing(r)) :
    Passing(r)[j].id = reqs[r].body.topRatedProducts[i].id

\* record j comes before record k when sorted by rating descending with
\* ties in input order
RatedBefore(products, j, k) ==
  \/ products[j].rating > products[k].rating
  \/ products[j].rating = products[k].rating /\ j < k

\* C15: topRatedProducts is the listing projection of the first min(5, n)
\* records of the input sorted by rating descending with ties in input
\* order; it equals the first five items of applySort(records, rating_desc)
\* projected, and its ratings are non-increasing.
C15_TopRatedIsSortedPrefix ==
  Aggregated("r1") =>
    /\ Len(reqs["r1"].body.topRatedProducts) = Min(5, Len(Passing("r1")))
    /\ \A i \in 1..Len(reqs["r1"].body.topRatedProducts) :
         /\ \E j \in 1..Len(Passing("r1")) :
              reqs["r1"].body.topRatedProducts[i] =
                toProductListItem(Passing("r1")[j])
         /\ Cardinality({k \in 1..Len(Passing("r1")) :
                           RatedBefore(Passing("r1"), k, SourceOf("r1", i))})
              = i - 1
    /\ \A i \in 1..(Len(reqs["r1"].body.topRatedProducts) - 1) :
         reqs["r1"].body.topRatedProducts[i].rating >=
           reqs["r1"].body.topRatedProducts[i + 1].rating
    /\ reqs["r1"].body.topRatedProducts =
         MapToListItem(Slice(applySort(Passing("r1"), SortOf("rating_desc")),
                             0, 5))

\* C15's case: more than five records, and one that is left out has the
\* rating of the last one that is listed
C15_Witness ==
  /\ Aggregated("r1")
  /\ Len(Passing("r1")) > 5
  /\ \E k \in 1..Len(Passing("r1")) :
       /\ Passing("r1")[k].rating = reqs["r1"].body.topRatedProducts[5].rating
       /\ \A i \in 1..5 : SourceOf("r1", i) # k

\* the sum of stock over the records of the category
StockOfCategory(products, category) ==
  SumOf(SelectSeq(products, LAMBDA p : p.category = category),
        CategoryCount(products, category), "stock")

\* C16: stockByCategory has exactly one entry per distinct category present
\* in the input, each entry's totalStock is the sum of stock over the
\* records of that category, and the entries appear in the order in which
\* the categories are first seen in the input.
C16_StockByCategory ==
  Aggregated("r1") =>
    /\ {reqs["r1"].body.stockByCategory[i].category :
          i \in 1..Len(reqs["r1"].body.stockByCategory)} =
       {Passing("r1")[j].category : j \in 1..Len(Passing("r1"))}
    /\ \A i, j \in 1..Len(reqs["r1"].body.stockByCategory) :
         i < j =>
           FirstSeen(Passing("r1"),
                     reqs["r1"].body.stockByCategory[i].category) <
           FirstSeen(Passing("r1"),
                     reqs["r1"].body.stockByCategory[j].category)
    /\ \A i \in 1..Len(reqs["r1"].body.stockByCategory) :
         reqs["r1"].body.stockByCategory[i].totalStock =
           StockOfCategory(Passing("r1"),
                           reqs["r1"].body.stockByCategory[i].category)

\* C16's case: three categories, the first of which has a second record
\* after the others have been seen
C16_Witness ==
  /\ Aggregated("r1")
  /\ Len(reqs["r1"].body.stockByCategory) > 2
  /\ \E j \in 3..Len(Passing("r1")) :
       /\ Passing("r1")[j].category = Passing("r1")[1].category
       /\ Passing("r1")[j].stock > 0
       /\ Passing("r1")[j - 1].category # Passing("r1")[1].category

\* C17: lowStockCount is the number of records whose stock is strictly less
\* than the threshold 10: a record with stock exactly 10 is not counted and
\* a record with stock 9 is.
C17_LowStockStrictlyBelowTen ==
  Aggregated("r1") =>
    reqs["r1"].body.lowStockCount =
      Cardinality({j \in 1..Len(Passing("r1")) : Passing("r1")[j].stock < 10})

\* C17's case: a record with stock 9 and a record with stock 10, and
\* records that are counted as well as records that are not
C17_Witness ==
  /\ Aggregated("r1")
  /\ \E j \in 1..Len(Passing("r1")) : Passing("r1")[j].stock = 9
  /\ \E j \in 1..Len(Passing("r1")) : Passing("r1")[j].stock = 10
  /\ reqs["r1"].body.lowStockCount > 1
  /\ reqs["r1"].body.lowStockCount < Len(Passing("r1")) - 1

RECURSIVE Total(_, _)
\* the sum of the field over the records
Total(products, field) ==
  IF products = <<>> THEN 0
  ELSE products[1][field] + Total(Tail(products), field)

UpstreamFailed(fetch) ==
  \/ fetch.kind \in {"abort", "network"}
  \/ fetch.kind = "response" /\ fetch.status \notin 200..299

\* the one message a route answers an upstream failure with
GenericError(kind) ==
  IF kind = "products"
  THEN [error |-> "Failed to fetch products from external API"]
  ELSE [error |-> "Failed to compute product insights"]

\* C19: when the upstream fetch fails (timeout, network error or
\* non-success status) during a listing or insights request, the request
\* ends with status 502 and a fixed generic error message, the same
\* whatever the failure, with neither the upstream's status nor its error
\* text, and with no items or aggregates.
C19_UpstreamFailureIsGeneric502 ==
  \A r \in Requests :
    (/\ reqs[r].kind \in {"products", "insights"}
     /\ reqs[r].pc = "done"
     /\ UpstreamFailed(reqs[r].fetch)) =>
      /\ reqs[r].status = 502
      /\ reqs[r].body = GenericError(reqs[r].kind)
      /\ reqs[r].products = <<>>

\* C19's case: a listing request whose fetch timed out and an insights
\* request whose fetch was answered 500, over a catalog that has products
C19_Witness ==
  /\ catalog # <<>>
  /\ reqs["r1"].kind = "products" /\ reqs["r1"].pc = "done"
  /\ reqs["r1"].fetch.kind = "abort"
  /\ reqs["r1"].status = 502
  /\ reqs["r2"].kind = "insights" /\ reqs["r2"].pc = "done"
  /\ reqs["r2"].fetch = [kind |-> "response", status |-> 500]
  /\ reqs["r2"].status = 502

(***************************************************************************)
(* The timeout of fetchJson, checked under SpecFetch.                      *)
(***************************************************************************)
\* C20: every upstream call made through fetchJson is bounded by the
\* timeout of 10000 ms: a fetch never waits a whole step of time beyond
\* it; a fetch that is aborted has waited the timeout out and the call
\* fails with HttpError 408; and every request that is waiting for the
\* upstream eventually has its response or its failure.
C20_FetchBoundedByTimeout ==
  /\ [](\A r \in Requests :
          reqs[r].pc = "fetching" => reqs[r].elapsedMs < 10000 + TickMs)
  /\ [](\A r \in Requests :
          (reqs[r].pc = "done" /\ reqs[r].fetch.kind = "abort") =>
            /\ reqs[r].elapsedMs >= 10000
            /\ reqs[r].kind = "paginated" => reqs[r].thrown = 408)
  /\ \A r \in Requests : (reqs[r].pc = "fetching") ~> (reqs[r].pc = "done")

\* C20's case: a call of getProductsPaginated whose fetch the upstream never
\* answered has failed with HttpError 408 while another request still waits
C20_Witness ==
  /\ reqs["r1"].kind = "paginated"
  /\ reqs["r1"].pc = "done"
  /\ reqs["r1"].fetch.kind = "abort"
  /\ reqs["r1"].thrown = 408
  /\ reqs["r2"].pc = "fetching"
  /\ reqs["r2"].elapsedMs > 0

(***************************************************************************)
(* Properties of the categories, checked under SpecCategories.             *)
(***************************************************************************)
\* a categories request that was answered with the names
Categorised(r) ==
  /\ reqs[r].kind = "categories"
  /\ reqs[r].pc = "done"
  /\ reqs[r].status = 200

\* s without the spaces before and after it
Trimmed(s) ==
  IF \A i \in DOMAIN s : s[i] = " " THEN <<>>
  ELSE SubSeq(s, CHOOSE i \in DOMAIN s :
                   s[i] # " " /\ \A j \in 1..(i - 1) : s[j] = " ",
              CHOOSE i \in DOMAIN s :
                   s[i] # " " /\ \A j \in (i + 1)..Len(s) : s[j] = " ")

\* C26: extractUniqueCategories returns the trimmed, non-empty category
\* names of the given products without duplicates and in ascending sorted
\* order; it returns the empty list for an empty product list, and every
\* returned name is the trim of some product's category.
C26_UniqueTrimmedSorted ==
  Categorised("r1") =>
    /\ {reqs["r1"].body.categories[i] :
          i \in DOMAIN reqs["r1"].body.categories} =
       {Trimmed(reqs["r1"].snapshot[j].category) :
          j \in DOMAIN reqs["r1"].snapshot} \ {<<>>}
    /\ \A i, j \in DOMAIN reqs["r1"].body.categories :
         i < j => localeCompare(reqs["r1"].body.categories[i],
                                reqs["r1"].body.categories[j]) < 0
    /\ reqs["r1"].snapshot = <<>> => reqs["r1"].body.categories = <<>>

\* C26's case: two records whose categories differ only by the spaces
\* around them, a blank category, and names that differ by case only
C26_Witness ==
  /\ Categorised("r1")
  /\ \E i, j \in DOMAIN reqs["r1"].snapshot :
       /\ i < j
       /\ reqs["r1"].snapshot[i].category = <<"b", " ">>
       /\ reqs["r1"].snapshot[j].category = <<"b">>
  /\ \E i \in DOMAIN reqs["r1"].snapshot :
       reqs["r1"].snapshot[i].category = <<" ">>
  /\ reqs["r1"].body.categories = << <<"A">>, <<"b">> >>

\* the products of r's snapshot that applyFilters selects when name is the
\* category criterion
SelectedBy(r, name) ==
  applyFilters(MapToDomain(reqs[r].snapshot),
               [NoFilters EXCEPT !.category = Str(name)])

\* C30: each name returned by extractUniqueCategories, passed as the
\* category criterion to applyFilters over the same snapshot, selects at
\* least one product, and every product with a non-empty category is
\* selected by some returned name.
C30_CategoriesRoundTrip ==
  Categorised("r1") =>
    /\ \A i \in DOMAIN reqs["r1"].body.categories :
         SelectedBy("r1", reqs["r1"].body.categories[i]) # <<>>
    /\ \A j \in DOMAIN reqs["r1"].snapshot :
         reqs["r1"].snapshot[j].category # <<>> =>
           \E i \in DOMAIN reqs["r1"].body.categories :
             \E k \in DOMAIN SelectedBy("r1", reqs["r1"].body.categories[i]) :
               SelectedBy("r1", reqs["r1"].body.categories[i])[k].id =
                 reqs["r1"].snapshot[j].id

(***************************************************************************)
(* The pages of one listing, checked under SpecPage: the pages other than  *)
(* the one "r1" asked for are what getProductsPaginated returns for r1's   *)
(* options and snapshot with the page changed.                             *)
(***************************************************************************)
\* the items of page p of r's listing
PageItems(r, p) ==
  Paginate([reqs[r].options EXCEPT !.page = Num(p)],
           MapToDomain(reqs[r].snapshot)).items

RECURSIVE PagesUpTo(_, _)
\* the items of pages 1..n of r's listing, one page after the other
PagesUpTo(r, n) ==
  IF n = 0 THEN <<>> ELSE PagesUpTo(r, n - 1) \o PageItems(r, n)

\* C27: for fixed records, filters, sort and page size, the items of pages
\* 1..totalPages one after the other are exactly the projection of the
\* sorted filtered sequence (what applySort makes of what applyFilters
\* keeps), no record omitted or repeated; every page
\* before the last has exactly pageSize items, the last has between 1 and
\* pageSize (0 only when total is 0), and
\* totalPages = max(1, ceil(total / pageSize)).
\* (The listing is looked at when "r1" has it; what "r2" does later does
\* not change it.)
C27_PagesPartitionTheListing ==
  (Listed("r1") /\ reqs["r2"].pc = "idle") =>
    /\ PagesUpTo("r1", reqs["r1"].body.pagination.totalPages) =
         MapToListItem(applySort(applyFilters(MapToDomain(reqs["r1"].snapshot),
                                              reqs["r1"].options.filters),
                                 reqs["r1"].options.sort))
    /\ \A p \in 1..reqs["r1"].body.pagination.totalPages :
         Len(PageItems("r1", p)) =
           IF p < reqs["r1"].body.pagination.totalPages
           THEN reqs["r1"].body.pageSize
           ELSE reqs["r1"].body.total -
                  (reqs["r1"].body.pagination.totalPages - 1) *
                    reqs["r1"].body.pageSize
    /\ reqs["r1"].body.total = Len(Passing("r1"))
    /\ reqs["r1"].body.pagination.totalPages >= 1
    /\ reqs["r1"].body.total = 0 => reqs["r1"].body.pagination.totalPages = 1
    /\ reqs["r1"].body.total > 0 =>
         /\ (reqs["r1"].body.pagination.totalPages - 1) *
              reqs["r1"].body.pageSize < reqs["r1"].body.total
         /\ reqs["r1"].body.total <=
              reqs["r1"].body.pagination.totalPages * reqs["r1"].body.pageSize

\* C27's case: a sorted listing of three records in pages of two, the last
\* page not full, asked for at a page that is not the first
C27_Witness ==
  /\ Listed("r1")
  /\ reqs["r2"].pc = "idle"
  /\ reqs["r1"].options.sort.k = "str"
  /\ reqs["r1"].body.pageSize = 2
  /\ reqs["r1"].body.total = 3
  /\ reqs["r1"].body.pagination.totalPages = 2
  /\ reqs["r1"].body.page = 2
  /\ Len(PageItems("r1", 2)) = 1

(***************************************************************************)
(* Numeric query parameters that are not numbers, checked under SpecSym.   *)
(***************************************************************************)
NumericParams == {"minPrice", "maxPrice", "maxStock"}

\* the parameter is given and Number() reads it as NaN
NotANumber(value) ==
  value.k = "str" /\ value.s # <<>> /\ ToNumber(value.s) = NaN

\* the number of records of r's snapshot that pass the criteria of r's
\* query with parameter f left out
CountWithout(r, f) ==
  Len(SelectSeq(MapToDomain(reqs[r].snapshot),
                LAMBDA p : AllEffectiveHold(p,
                  ProductsRouteFilters([reqs[r].query EXCEPT ![f] = NullStr]))))

\* the number of records r's response is built from
CountOf(r) ==
  IF reqs[r].kind = "insights" THEN reqs[r].body.totalProducts
  ELSE reqs[r].body.total

ParsesToPositive(s) ==
  \E a \in 1..Len(s) : \E b \in a..Len(s) :
    /\ \A i \in 1..(a - 1) : s[i] = " " \/ (i = a - 1 /\ s[i] = "+")
    /\ \A i \in a..b : IsDigit(s[i])
    /\ s[b] # "0"

\* C24: a single-product request whose id does not parse to a positive
\* integer is answered 400 "Invalid product id" at once, without a fetch,
\* and no other request is; 404 and 502 are answered only after the one
\* fetch of a request with a valid id, so that a request ends in at most one
\* of the three failures.
C24_InvalidIdIs400WithoutFetch ==
  \A r \in Requests :
    reqs[r].kind = "product" =>
      /\ ~ParsesToPositive(reqs[r].idParam) =>
           /\ reqs[r].pc = "done"
           /\ reqs[r].status = 400
           /\ reqs[r].body = [error |-> "Invalid product id"]
           /\ reqs[r].fetches = 0
           /\ reqs[r].fetch.kind = "none"
      /\ ParsesToPositive(reqs[r].idParam) =>
           /\ reqs[r].fetches = 1
           /\ reqs[r].status # 400
           /\ reqs[r].pc = "done" =>
                /\ reqs[r].status \in {200, 404, 502}
                /\ reqs[r].fetch.kind # "none"

\* C24's case: one request with the id "0" answered 400 while another, with
\* the id "2x", has been answered 404 by the upstream
C24_Witness ==
  /\ reqs["r1"].kind = "product"
  /\ reqs["r1"].idParam = <<"0">>
  /\ reqs["r1"].status = 400
  /\ reqs["r2"].kind = "product"
  /\ reqs["r2"].idParam = <<"2", "x">>
  /\ reqs["r2"].status = 404
  /\ reqs["r2"].fetch = [kind |-> "response", status |-> 404]

(***************************************************************************)
(* The failures of fetchJson and its timer, checked under SpecFetch.  What *)
(* fetchJson throws is seen in a direct call of getProductsPaginated,      *)
(* which hands the error on as it is.                                      *)
(***************************************************************************)
\* C28: what fetchJson throws is an HttpError whose status is the
\* upstream's for a response that is not a success, 408 for the abort by
\* the timeout, and 502 for a network error or a body that is no JSON; a
\* success throws nothing; and the timer is pending only while the fetch is
\* awaited, so that no request that has settled has a timer left.
C28_FetchJsonFailuresAndTimer ==
  \A r \in Requests :
    /\ reqs[r].timerArmed <=> reqs[r].pc = "fetching"
    /\ (reqs[r].kind = "paginated" /\ reqs[r].pc = "done") =>
         /\ reqs[r].fetch.kind = "abort" => reqs[r].thrown = 408
         /\ reqs[r].fetch.kind = "network" => reqs[r].thrown = 502
         /\ (reqs[r].fetch.kind = "response"
               /\ reqs[r].fetch.status \notin 200..299) =>
              reqs[r].thrown = reqs[r].fetch.status
         /\ (reqs[r].fetch.kind = "response"
               /\ reqs[r].fetch.status \in 200..299) =>
              \/ reqs[r].thrown = 502 /\ reqs[r].body = NoBody
              \/ /\ reqs[r].thrown = 0
                 /\ reqs[r].body.total = Len(reqs[r].snapshot)
         /\ reqs[r].thrown \in {0, 408, 500, 502}

\* C28's case: a call that failed with the upstream's status 500 after time
\* had passed, and a request answered after its fetch was aborted, neither
\* with a timer left
C28_Witness ==
  /\ reqs["r1"].kind = "paginated"
  /\ reqs["r1"].pc = "done"
  /\ reqs["r1"].fetch = [kind |-> "response", status |-> 500]
  /\ reqs["r1"].thrown = 500
  /\ reqs["r1"].elapsedMs > 0
  /\ ~reqs["r1"].timerArmed
  /\ reqs["r2"].pc = "done"
  /\ reqs["r2"].fetch.kind = "abort"
  /\ ~reqs["r2"].timerArmed

\* C25 as stated: a request given up while its fetch was in flight has that
\* fetch aborted before its timer is due: the fetch neither runs on to an
\* answer of the upstream nor waits the timeout out.
C25_AbandonedFetchIsAborted ==
  \A r \in Requests :
    (reqs[r].abandoned /\ reqs[r].pc = "done") =>
      /\ reqs[r].fetch.kind = "abort"
      /\ reqs[r].elapsedMs < timeoutMs

(***************************************************************************)
(* The record set during the aggregation, checked under SpecInsights.      *)
(***************************************************************************)
\* C29: the array the insights were computed over is, after the
\* computation, the filtered records in their input order, and every
\* aggregate of the response is its sub-computation applied to those
\* records alone, stockByCategory and mostCommonCategory included, whatever
\* ran before it.
C29_AggregationLeavesRecordsUnchanged ==
  Aggregated("r1") =>
    /\ reqs["r1"].products = Passing("r1")
    /\ reqs["r1"].body.stockByCategory = computeStockByCategory(Passing("r1"))
    /\ reqs["r1"].body.mostCommonCategory =
         computeMostCommonCategory(Passing("r1"))
    /\ reqs["r1"].body.topRatedProducts =
         computeTopRatedProducts(Passing("r1"), TOP_RATED_LIMIT)
    /\ reqs["r1"].body.lowStockCount =
         computeLowStockCount(Passing("r1"), LOW_STOCK_THRESHOLD)
    /\ reqs["r1"].body.totalStock = computeTotalStock(Passing("r1"))
    /\ reqs["r1"].body.totalProducts = Len(Passing("r1"))
    /\ reqs["r1"].body.averagePriceGlobal = computeAveragePrice(Passing("r1"))
    /\ reqs["r1"].body.averageRatingGlobal =
         computeAverageRating(Passing("r1"))
    /\ reqs["r1"].body.averageStockGlobal = computeAverageStock(Passing("r1"))

\* C29's case: the first two records are of different categories, both of
\* the greatest count, and the second is rated higher than the first, so
\* that sorting by rating would change which category is seen first
C29_Witness ==
  /\ Aggregated("r1")
  /\ Len(Passing("r1")) > 2
  /\ Passing("r1")[1].rating < Passing("r1")[2].rating
  /\ Passing("r1")[1].category # Passing("r1")[2].category
  /\ CategoryCount(Passing("r1"), Passing("r1")[1].category) =
       GreatestCount(Passing("r1"))
  /\ CategoryCount(Passing("r1"), Passing("r1")[2].category) =
       GreatestCount(Passing("r1"))
  /\ reqs["r1"].body.stockByCategory[1].category = Passing("r1")[1].category
  /\ reqs["r1"].body.topRatedProducts[1].id # Passing("r1")[1].id

(***************************************************************************)
(* One fetch per request and the independence of requests, checked under   *)
(* SpecConc.  The snapshot of a request is the upstream's list at the      *)
(* moment its fetch was answered.                                          *)
(***************************************************************************)
\* the fetch of r was answered with the upstream's data
Fetched(r) ==
  /\ reqs[r].pc = "done"
  /\ reqs[r].fetch = [kind |-> "response", status |-> 200]

\* the response of r shows the records of r's own snapshot
FromOwnSnapshot(r) ==
  CASE reqs[r].kind = "products" ->
         /\ reqs[r].body.total = Len(Passing(r))
         /\ \A i \in DOMAIN reqs[r].body.items :
              \E j \in DOMAIN reqs[r].snapshot :
                reqs[r].body.items[i] =
                  ListingProjection(mapDtoToDomain(reqs[r].snapshot[j]))
    [] reqs[r].kind = "insights" ->
         reqs[r].body.totalProducts = Len(reqs[r].snapshot)
    [] reqs[r].kind = "categories" ->
         {reqs[r].body.categories[i] : i \in DOMAIN reqs[r].body.categories} =
           {trim(reqs[r].snapshot[j].category) :
              j \in DOMAIN reqs[r].snapshot} \ {<<>>}
    [] reqs[r].kind = "product" ->
         \E j \in DOMAIN reqs[r].snapshot :
           /\ reqs[r].snapshot[j].id = reqs[r].id.n
           /\ reqs[r].body = mapDtoToDomain(reqs[r].snapshot[j])
    [] OTHER -> FALSE

OwnOutcome(r) ==
  IF reqs[r].fetch.kind = "network" THEN NetworkError
  ELSE IF reqs[r].kind = "product"
       THEN UpstreamById(reqs[r].snapshot, reqs[r].id.n)
       ELSE UpstreamList(reqs[r].snapshot, MAX_PRODUCTS_PAGE_SIZE)

\* C22: in every interleaving, the response of a request that went through
\* its fetch is what its handler makes of its own parameters and of the
\* answer to its own fetch, whatever the other request did meanwhile; two
\* requests of the same route, parameters and snapshot have the same
\* response; and a step of one request changes the record of that request
\* only, and nothing any other request reads.
C22_RequestsIndependent ==
  /\ [](\A r \in Requests :
          (reqs[r].pc = "done" /\ reqs[r].fetch.kind # "none") =>
            /\ reqs[r].status = RouteResponse(reqs[r], OwnOutcome(r)).status
            /\ reqs[r].body = RouteResponse(reqs[r], OwnOutcome(r)).body
            /\ reqs[r].products =
                 RouteResponse(reqs[r], OwnOutcome(r)).products)
  /\ []((/\ reqs["r1"].pc = "done" /\ reqs["r2"].pc = "done"
         /\ reqs["r1"].kind = reqs["r2"].kind
         /\ reqs["r1"].query = reqs["r2"].query
         /\ reqs["r1"].idParam = reqs["r2"].idParam
         /\ reqs["r1"].snapshot = reqs["r2"].snapshot
         /\ reqs["r1"].fetch = reqs["r2"].fetch) =>
          reqs["r1"] = reqs["r2"])
  /\ [][\A r \in Requests :
          reqs'[r] # reqs[r] =>
            /\ \A o \in Requests \ {r} : reqs'[o] = reqs[o]
            /\ heap' = heap /\ call' = call /\ catalog' = catalog]_vars

\* C22's case: an insights request and a listing request in flight
\* together, the listing answered first and the insights after the
\* upstream's list had changed
C22_Witness ==
  /\ reqs["r1"].kind = "insights" /\ reqs["r2"].kind = "products"
  /\ Fetched("r1") /\ Fetched("r2")
  /\ Len(reqs["r1"].snapshot) < Len(reqs["r2"].snapshot)
  /\ reqs["r1"].body.totalProducts > 0
  /\ reqs["r1"].body.totalProducts < reqs["r2"].body.total

=============================================================================
